---- MODULE Spec2Model ----
(***************************************************************************)
(* Contract-evolution core: behavior-set algebra over named boxes, the     *)
(* deviation lattice and contract reconstruction, the evolution operator   *)
(* Phi and the fixpoint engine.                                            *)
(*                                                                         *)
(* A region is a function from its variable set to <<lo, hi>>: every       *)
(* region the code builds is an axis-aligned box (Zonotope.from_box) or a  *)
(* projection of one, and every approximate operation reads only the       *)
(* bounding box.  Bounds are integers; the code's 1e-12 tolerances are     *)
(* strict comparisons on integers.  A behavior set is the sequence of its  *)
(* regions (BehaviorSet.regions).                                          *)
(*                                                                         *)
(* Specifications:                                                         *)
(*   SpecAlgebra  behavior-set operations and reconstruct_contract         *)
(*   SpecSubset   subset_of on constructed behavior sets                   *)
(*   SpecMap      set_deviation / update_deviation on a deviation map      *)
(*   SpecPhi      direct calls of EvolutionOperator.apply                  *)
(*   SpecChain    successive applications of Phi on the chain A -> B -> C  *)
(*   SpecValidation  WellFormednessChecker.check, SystemLevelChecker.check *)
(*   SpecGraph    find_strongly_connected_components on built networks     *)
(*   Spec         network construction, FixpointEngine.__init__ and run    *)
(***************************************************************************)
EXTENDS Integers, Sequences, FiniteSets, TLC

VARIABLES
    acc,                \* algebra: the behavior set operated on
    last,               \* record of the last call: operation, arguments, result
    nops,               \* number of calls made so far
    components,         \* ContractNetwork.components: name -> ComponentNode
    component_order,    \* the keys of ContractNetwork.components in insertion order
    interfaces,         \* ContractNetwork.interfaces: list of Interface
    post_transformers,  \* EvolutionOperator.post_transformers: name -> kind
    pre_transformers,   \* EvolutionOperator.pre_transformers: name -> kind
    store,              \* heap of DeviationMap objects: id -> deviations dict
    pc,                 \* position of the engine
    max_iterations,     \* FixpointEngine.max_iterations
    iteration,          \* loop variable of FixpointEngine.run
    current_delta,      \* id of run's current_delta
    delta_history,      \* FixpointEngine.delta_history: list of ids
    metrics_history,    \* FixpointEngine.metrics_history
    raised,             \* the exception that left the last call, or NoException
    returned            \* id of the map run returned, or 0

vars == <<acc, last, nops, components, component_order, interfaces, post_transformers,
          pre_transformers, store, pc, max_iterations, iteration,
          current_delta, delta_history, metrics_history, raised, returned>>

netVars == <<components, component_order, interfaces, post_transformers,
            pre_transformers>>
engineVars == <<pc, max_iterations, iteration, current_delta, delta_history,
                metrics_history, raised, returned>>

(***************************************************************************)
(* Bounds and program constants                                            *)
(***************************************************************************)
MAX_ZONOTOPES_PER_SET == 20

MaxRep == 11
MaxOps == 2
MaxMapOps == 3
MaxInterfaces == 2
MaxApply == 2
MaxIterations == 2

Min(a, b) == IF a <= b THEN a ELSE b
Max(a, b) == IF a >= b THEN a ELSE b

(***************************************************************************)
(* Regions                                                                 *)
(***************************************************************************)
VarOrder == <<"x", "y">>

\* Zonotope.from_box followed by to_box_bounds: center (lo+hi)/2 and the
\* absolute half-width |hi-lo|/2, so inverted bounds come back swapped
from_box(bounds) ==
    [v \in DOMAIN bounds |-> <<Min(bounds[v][1], bounds[v][2]),
                               Max(bounds[v][1], bounds[v][2])>>]

\* ZonotopeRegion.__init__: Box({v: (lo, hi)}) and Box({"x": .., "y": ..})
Box1(v, lo, hi) == from_box([w \in {v} |-> <<lo, hi>>])
Box2(xlo, xhi, ylo, yhi) ==
    from_box([w \in {"x", "y"} |-> IF w = "x" THEN <<xlo, xhi>> ELSE <<ylo, yhi>>])

get_variable_set(r) == DOMAIN r

\* the sorted variable tuple of a region
variables(r) == SelectSeq(VarOrder, LAMBDA v : v \in DOMAIN r)

\* Zonotope.is_empty on the bounding box: some axis has no extent
is_empty_region(r) == \E v \in DOMAIN r : r[v][2] - r[v][1] <= 0

\* ZonotopeRegion.project: keep the dimensions in keep_variables
project_region(r, keep_variables) ==
    [v \in (DOMAIN r \cap keep_variables) |-> r[v]]

\* zonotope_union: bounding hull of the two boxes
zonotope_union(z1, z2) ==
    from_box([v \in DOMAIN z1 |-> <<Min(z1[v][1], z2[v][1]), Max(z1[v][2], z2[v][2])>>])

\* the box intersection computed by zonotope_intersection / zonotope_subtract
intersection_bounds(z1, z2) ==
    [v \in DOMAIN z1 |-> <<Max(z1[v][1], z2[v][1]), Min(z1[v][2], z2[v][2])>>]

no_overlap(ib) == \E v \in DOMAIN ib : ib[v][1] >= ib[v][2]

\* zonotope_intersection: the intersected box, or the degenerate box
zonotope_intersection(z1, z2) ==
    LET ib == intersection_bounds(z1, z2)
    IN  IF no_overlap(ib) THEN from_box([v \in DOMAIN z1 |-> <<0, 0>>])
        ELSE from_box(ib)

\* carve: before / overlap / after on every axis, in axis order
RECURSIVE carve(_, _, _, _, _)
carve(dim, current_bounds, bounds1, ib, vs) ==
    IF dim > Len(vs)
    THEN IF no_overlap(current_bounds) \/ current_bounds = ib
         THEN <<>>
         ELSE <<from_box(current_bounds)>>
    ELSE LET v == vs[dim]
             b1_lo == bounds1[v][1]
             b1_hi == bounds1[v][2]
             int_lo == ib[v][1]
             int_hi == ib[v][2]
             mid_lo == Max(b1_lo, int_lo)
             mid_hi == Min(b1_hi, int_hi)
             before == IF b1_lo < int_lo
                       THEN carve(dim + 1, [current_bounds EXCEPT ![v] = <<b1_lo, int_lo>>],
                                  bounds1, ib, vs)
                       ELSE <<>>
             middle == IF mid_lo < mid_hi
                       THEN carve(dim + 1, [current_bounds EXCEPT ![v] = <<mid_lo, mid_hi>>],
                                  bounds1, ib, vs)
                       ELSE <<>>
             after  == IF int_hi < b1_hi
                       THEN carve(dim + 1, [current_bounds EXCEPT ![v] = <<int_hi, b1_hi>>],
                                  bounds1, ib, vs)
                       ELSE <<>>
         IN  before \o middle \o after

\* zonotope_subtract: the list of boxes of z1 \ z2
zonotope_subtract(z1, z2) ==
    LET ib == intersection_bounds(z1, z2)
    IN  IF no_overlap(ib) THEN <<z1>>
        ELSE IF \A v \in DOMAIN z1 : z2[v][1] <= z1[v][1] /\ z2[v][2] >= z1[v][2]
             THEN <<>>
             ELSE carve(1, z1, z1, ib, variables(z1))

(***************************************************************************)
(* Behavior sets                                                           *)
(***************************************************************************)
\* concatenation of the lists seqs[lo..hi], in order
RECURSIVE FlattenRange(_, _, _)
FlattenRange(seqs, lo, hi) ==
    IF lo > hi THEN <<>>
    ELSE IF lo = hi THEN seqs[lo]
    ELSE LET mid == (lo + hi) \div 2
         IN  FlattenRange(seqs, lo, mid) \o FlattenRange(seqs, mid + 1, hi)

Flatten(seqs) == FlattenRange(seqs, 1, Len(seqs))

\* One pass of the inner while loop.  The loop index i visits a region, merges
\* it with its successor when both have the same variable set (i += 2) and
\* keeps it alone otherwise (i += 1).  Inside a maximal run of regions with
\* equal variable sets the loop therefore visits the 1st, 3rd, 5th ... region
\* of the run, and it visits the first region of every run.
merge_pass(current) ==
    LET n == Len(current)
        mergeable(i) ==
            /\ i + 1 <= n
            /\ get_variable_set(current[i]) = get_variable_set(current[i + 1])
        run_start(i) ==
            CHOOSE k \in 1..i :
                /\ \A j \in k..(i - 1) : mergeable(j)
                /\ k = 1 \/ ~mergeable(k - 1)
        visited == SelectSeq([i \in 1..n |-> i],
                             LAMBDA i : (i - run_start(i)) % 2 = 0)
    IN  [k \in 1..Len(visited) |->
            IF mergeable(visited[k])
            THEN zonotope_union(current[visited[k]], current[visited[k] + 1])
            ELSE current[visited[k]]]

\* variant: the merge pass without the final truncation
apply_cache_management_no_truncation(regions) ==
    IF Len(regions) <= MAX_ZONOTOPES_PER_SET THEN regions
    ELSE merge_pass(regions)

\* BehaviorSet._apply_cache_management
apply_cache_management(regions) ==
    IF Len(regions) <= MAX_ZONOTOPES_PER_SET THEN regions
    ELSE LET merged == merge_pass(regions)
         IN  IF Len(merged) > MAX_ZONOTOPES_PER_SET
             THEN SubSeq(merged, 1, MAX_ZONOTOPES_PER_SET)
             ELSE merged

\* BehaviorSet.__init__
BehaviorSet(regions) ==
    LET kept == SelectSeq(regions, LAMBDA r : ~is_empty_region(r))
    IN  IF Len(kept) > MAX_ZONOTOPES_PER_SET
        THEN apply_cache_management(kept)
        ELSE kept

is_empty(bs) == Len(bs) = 0

\* variant: the empty-operand shortcuts return the wrong operand
union_shortcut_swapped(self, other) ==
    IF is_empty(other) THEN BehaviorSet(other)
    ELSE IF is_empty(self) THEN BehaviorSet(self)
    ELSE BehaviorSet(apply_cache_management_no_truncation(self \o other))

\* BehaviorSet.union
union(self, other) ==
    IF is_empty(other) THEN BehaviorSet(self)
    ELSE IF is_empty(self) THEN BehaviorSet(other)
    ELSE LET all_regions == self \o other
         IN  BehaviorSet(IF Len(all_regions) > MAX_ZONOTOPES_PER_SET
                         THEN apply_cache_management(all_regions)
                         ELSE all_regions)

\* the inner loop of intersection: r1 against every compatible r2, in order
intersect_one(r1, others) ==
    LET hits == SelectSeq(others, LAMBDA r2 :
                    /\ get_variable_set(r1) = get_variable_set(r2)
                    /\ ~is_empty_region(zonotope_intersection(r1, r2)))
    IN  [j \in 1..Len(hits) |-> zonotope_intersection(r1, hits[j])]

\* the outer loop of intersection
intersect_all(regions, others) ==
    Flatten([i \in 1..Len(regions) |-> intersect_one(regions[i], others)])

\* BehaviorSet.intersection
intersection(self, other) == BehaviorSet(intersect_all(self, other))

\* variant: the variable sets are not compared before subtracting
subtract_from_unchecked(region, region_to_subtract) ==
    IF get_variable_set(region) \cap get_variable_set(region_to_subtract) = {}
    THEN <<region>>
    ELSE LET shared == get_variable_set(region) \cap get_variable_set(region_to_subtract)
             pieces == zonotope_subtract(project_region(region, shared),
                                         project_region(region_to_subtract, shared))
             kept == SelectSeq(pieces, LAMBDA z : ~is_empty_region(z))
         IN  [k \in 1..Len(kept) |->
                 [v \in DOMAIN region |-> IF v \in shared THEN kept[k][v] ELSE region[v]]]

\* what one result region contributes when region_to_subtract is removed
subtract_from(region, region_to_subtract) ==
    IF get_variable_set(region) # get_variable_set(region_to_subtract)
    THEN <<region>>
    ELSE SelectSeq(zonotope_subtract(region, region_to_subtract),
                   LAMBDA z : ~is_empty_region(z))

\* the inner loop of difference: subtract one region from every result region
subtract_from_all(result_regions, region_to_subtract) ==
    Flatten([i \in 1..Len(result_regions) |->
                subtract_from(result_regions[i], region_to_subtract)])

\* the outer loop of difference, with cache management after each subtrahend
RECURSIVE difference_loop(_, _)
difference_loop(result_regions, to_subtract) ==
    IF Len(to_subtract) = 0 THEN result_regions
    ELSE LET new_result == subtract_from_all(result_regions, Head(to_subtract))
         IN  difference_loop(IF Len(new_result) > MAX_ZONOTOPES_PER_SET
                             THEN apply_cache_management(new_result)
                             ELSE new_result,
                             Tail(to_subtract))

\* BehaviorSet.difference
difference(self, other) ==
    IF is_empty(other) THEN BehaviorSet(self)
    ELSE BehaviorSet(difference_loop(self, other))

\* the loop of project: regions that keep a variable, projected, non-empty
project_regions(regions, vs) ==
    LET kept == SelectSeq(regions, LAMBDA region :
                    /\ get_variable_set(region) \cap vs # {}
                    /\ ~is_empty_region(
                           project_region(region, get_variable_set(region) \cap vs)))
    IN  [i \in 1..Len(kept) |->
            project_region(kept[i], get_variable_set(kept[i]) \cap vs)]

\* BehaviorSet.project
project(self, vs) == BehaviorSet(project_regions(self, vs))

\* variant: only the lower bounds are compared
all_inside_lower_bounds_only(region1, region2) ==
    \A v \in DOMAIN region1 : ~(region1[v][1] < region2[v][1])

\* the bounding box of region1 lies inside the bounding box of region2
all_inside(region1, region2) ==
    \A v \in DOMAIN region1 :
        ~(region1[v][1] < region2[v][1] \/ region1[v][2] > region2[v][2])

\* BehaviorSet.subset_of
subset_of(self, other) ==
    IF is_empty(self) THEN TRUE
    ELSE IF is_empty(other) THEN FALSE
    ELSE \A i \in 1..Len(self) :
            \E j \in 1..Len(other) :
                /\ get_variable_set(self[i]) = get_variable_set(other[j])
                /\ all_inside(self[i], other[j])

(***************************************************************************)
(* Contracts and deviations                                                *)
(***************************************************************************)
Contract(a, g) == [assumptions |-> a, guarantees |-> g]

\* Deviation(...): the four behavior sets
Deviation(a_rel, a_str, g_rel, g_str) ==
    [assumption_relaxation    |-> a_rel,
     assumption_strengthening |-> a_str,
     guarantee_relaxation     |-> g_rel,
     guarantee_strengthening  |-> g_str]

\* Deviation(): every field from default_factory=BehaviorSet
EmptyDeviation == Deviation(BehaviorSet(<<>>), BehaviorSet(<<>>),
                            BehaviorSet(<<>>), BehaviorSet(<<>>))

DeviationParts == {"assumption_relaxation", "assumption_strengthening",
                   "guarantee_relaxation", "guarantee_strengthening"}

\* Deviation.total_magnitude
total_magnitude(dev) ==
    Len(dev.assumption_relaxation) + Len(dev.assumption_strengthening)
        + Len(dev.guarantee_relaxation) + Len(dev.guarantee_strengthening)

\* Deviation.subset_of
deviation_subset_of(self, other) ==
    /\ subset_of(self.assumption_relaxation, other.assumption_relaxation)
    /\ subset_of(self.assumption_strengthening, other.assumption_strengthening)
    /\ subset_of(self.guarantee_relaxation, other.guarantee_relaxation)
    /\ subset_of(self.guarantee_strengthening, other.guarantee_strengthening)

\* Deviation.union_with
union_with(self, other) ==
    Deviation(union(self.assumption_relaxation, other.assumption_relaxation),
              union(self.assumption_strengthening, other.assumption_strengthening),
              union(self.guarantee_relaxation, other.guarantee_relaxation),
              union(self.guarantee_strengthening, other.guarantee_strengthening))

\* Deviation._boxes_equal: same count and same set of bounds
boxes_equal(bs1, bs2) ==
    /\ Len(bs1) = Len(bs2)
    /\ {bs1[i] : i \in 1..Len(bs1)} = {bs2[i] : i \in 1..Len(bs2)}

\* Deviation.__eq__
deviation_eq(self, other) ==
    /\ \A p \in DeviationParts : Len(self[p]) = Len(other[p])
    /\ \A p \in DeviationParts : boxes_equal(self[p], other[p])

\* variant: the inverted polarity, (G0 \cup dG_str) \ dG_rel
reconstruct_contract_inverted(baseline, deviation) ==
    LET assumptions_star ==
            difference(union(baseline.assumptions, deviation.assumption_strengthening),
                       deviation.assumption_relaxation)
        guarantees_star ==
            difference(union(baseline.guarantees, deviation.guarantee_strengthening),
                       deviation.guarantee_relaxation)
    IN  Contract(assumptions_star, guarantees_star)

\* reconstruct_contract
reconstruct_contract(baseline, deviation) ==
    LET assumptions_star ==
            difference(union(baseline.assumptions, deviation.assumption_relaxation),
                       deviation.assumption_strengthening)
        guarantees_star ==
            difference(union(baseline.guarantees, deviation.guarantee_relaxation),
                       deviation.guarantee_strengthening)
    IN  Contract(assumptions_star, guarantees_star)

(***************************************************************************)
(* Deviation maps: the deviations dict of a DeviationMap object            *)
(***************************************************************************)
EmptyMap == [c \in {} |-> EmptyDeviation]

put(m, c, d) == [k \in DOMAIN m \cup {c} |-> IF k = c THEN d ELSE m[k]]

\* DeviationMap.get_deviation
get_deviation(m, component) ==
    IF component \in DOMAIN m THEN m[component] ELSE EmptyDeviation

\* DeviationMap.set_deviation
set_deviation(m, component, deviation) == put(m, component, deviation)

\* variant: the entry is replaced by the new deviation, without the union
update_deviation_replacing(m, component, new_delta) ==
    put(m, component, new_delta)

\* DeviationMap.update_deviation
update_deviation(m, component, new_delta) ==
    put(m, component, union_with(get_deviation(m, component), new_delta))

RECURSIVE SumOver(_, _)
SumOver(S, f) ==
    IF S = {} THEN 0
    ELSE LET k == CHOOSE k \in S : TRUE IN f[k] + SumOver(S \ {k}, f)

\* DeviationMap.total_magnitude
map_total_magnitude(m) ==
    SumOver(DOMAIN m, [c \in DOMAIN m |-> total_magnitude(m[c])])

\* variant: only the key sets are compared
map_eq_keys_only(self, other) == DOMAIN self = DOMAIN other

\* DeviationMap.__eq__
map_eq(self, other) ==
    /\ DOMAIN self = DOMAIN other
    /\ \A comp \in DOMAIN self : deviation_eq(self[comp], other[comp])

\* DeviationMap.copy: a new dict of new deviations over sliced region lists
copy(m) ==
    [comp \in DOMAIN m |->
        Deviation(BehaviorSet(m[comp].assumption_relaxation),
                  BehaviorSet(m[comp].assumption_strengthening),
                  BehaviorSet(m[comp].guarantee_relaxation),
                  BehaviorSet(m[comp].guarantee_strengthening))]

(***************************************************************************)
(* Network, transformers and exceptions                                    *)
(***************************************************************************)
ComponentNode(name, inputs, outputs, baseline_contract) ==
    [name |-> name, inputs |-> inputs, outputs |-> outputs,
     baseline_contract |-> baseline_contract]

Interface(supplier, consumer, interface_variables) ==
    [supplier |-> supplier, consumer |-> consumer, variables |-> interface_variables]

\* ContractNetwork.get_component(name) is not None
has_component(name) == name \in DOMAIN components

NoException == [type |-> "None"]

\* iteration_number None is 0 (iterations count from 1), edge_context None
\* is the empty tuple
MILPTransformFailure(component_name, transformer_type, variable_being_optimized) ==
    [type |-> "MILPTransformFailure",
     component_name |-> component_name,
     transformer_type |-> transformer_type,
     variable_being_optimized |-> variable_being_optimized,
     iteration_number |-> 0,
     edge_context |-> <<>>]

\* BehaviorSet has no attribute 'volume'
AttributeError == [type |-> "AttributeError"]

\* add_interface on an unknown supplier or consumer
ValueError == [type |-> "ValueError"]

\* A transformer is a callable BehaviorSet -> BehaviorSet.  Four kinds:
\* "identity" returns its argument, "empty" returns BehaviorSet([]), "fail"
\* raises the failure of Component.post / Component.pre for the variable
\* it optimizes, "fail_with_context" raises a failure constructed with an
\* iteration number and an edge context.
TransformerKinds == {"identity", "empty", "fail", "fail_with_context"}

\* MILPTransformFailure(..., iteration_number=3,
\*                      edge_context=("Supplier", "Consumer", {"iface_var"}))
PresetIteration == 3
PresetEdgeContext == <<"Supplier", "Consumer", {"iface_var"}>>

optimized_variable(transformer_type) ==
    IF transformer_type = "post" THEN "y" ELSE "x"

transformer_call(kind, component_name, transformer_type, behaviors) ==
    CASE kind = "identity" -> [exc |-> NoException, result |-> behaviors]
      [] kind = "empty" -> [exc |-> NoException, result |-> BehaviorSet(<<>>)]
      [] kind = "fail" ->
            [exc |-> MILPTransformFailure(component_name, transformer_type,
                                          optimized_variable(transformer_type)),
             result |-> BehaviorSet(<<>>)]
      [] kind = "fail_with_context" ->
            [exc |-> [MILPTransformFailure(component_name, transformer_type,
                                           optimized_variable(transformer_type))
                          EXCEPT !.iteration_number = PresetIteration,
                                 !.edge_context = PresetEdgeContext],
             result |-> BehaviorSet(<<>>)]

(***************************************************************************)
(* The heap of DeviationMap objects and EvolutionOperator.apply            *)
(***************************************************************************)
\* variant: copy returns the object it was called on
copy_object_aliasing(st, id) == [store |-> st, id |-> id]

\* delta.copy(): a new object holding copy(deviations)
copy_object(st, id) == [store |-> Append(st, copy(st[id])), id |-> Len(st) + 1]

\* Deviation(<part>=bs): the other parts default to BehaviorSet()
DeviationWith(part, bs) == [EmptyDeviation EXCEPT ![part] = bs]

\* variant: the projected relaxation is filed as an assumption strengthening
consumer_dev_update_strengthening(delta_g_rel_proj) ==
    DeviationWith("assumption_strengthening", delta_g_rel_proj)

\* consumer_dev_update = Deviation(assumption_relaxation=delta_g_rel_proj)
consumer_dev_update(delta_g_rel_proj) ==
    DeviationWith("assumption_relaxation", delta_g_rel_proj)

\* variant: the projected strengthening is filed as a guarantee relaxation
supplier_dev_update_relaxation(delta_a_str_proj) ==
    DeviationWith("guarantee_relaxation", delta_a_str_proj)

\* supplier_dev_update = Deviation(guarantee_strengthening=delta_a_str_proj)
supplier_dev_update(delta_a_str_proj) ==
    DeviationWith("guarantee_strengthening", delta_a_str_proj)

\* new_delta.update_deviation(component, dev) on the heap
heap_update(st, id, component, dev) ==
    [st EXCEPT ![id] = update_deviation(@, component, dev)]

\* variant: the edge context is set whether or not the failure carries one
with_edge_context_overwriting(e, iface) ==
    [e EXCEPT !.edge_context = <<iface.supplier, iface.consumer, iface.variables>>]

\* "if e.edge_context is None: e.edge_context = (supplier, consumer, vars)"
with_edge_context(e, iface) ==
    IF e.edge_context = <<>>
    THEN [e EXCEPT !.edge_context = <<iface.supplier, iface.consumer, iface.variables>>]
    ELSE e

\* variant: the deviation is read from the map under construction
read_deviation_in_progress(s, delta, new_delta, component) ==
    get_deviation(s.store[new_delta], component)

\* "delta.get_deviation(supplier)" / "delta.get_deviation(consumer)" inside the
\* loops: the deviation is read from the input object delta
read_deviation(s, delta, new_delta, component) ==
    get_deviation(s.store[delta], component)

\* Body of the forward loop for one interface.  s = [store, count, exc] is
\* the heap, propagation_count and the exception that left the loop.
forward_step(s, iface, delta, new_delta) ==
    LET supplier_dev == read_deviation(s, delta, new_delta, iface.supplier)
        delta_g_rel_proj == project(supplier_dev.guarantee_relaxation, iface.variables)
        st1 == heap_update(s.store, new_delta, iface.consumer,
                           consumer_dev_update(delta_g_rel_proj))
        s1 == [store |-> st1, count |-> s.count + 1, exc |-> NoException]
        post == transformer_call(post_transformers[iface.consumer], iface.consumer,
                                 "post", delta_g_rel_proj)
        post_result_proj == project(post.result, components[iface.consumer].outputs)
    IN  IF s.exc # NoException THEN s
        ELSE IF is_empty(supplier_dev.guarantee_relaxation) THEN s
        ELSE IF is_empty(delta_g_rel_proj) THEN s
        ELSE IF iface.consumer \notin DOMAIN post_transformers THEN s1
        ELSE IF post.exc # NoException
             THEN [s1 EXCEPT !.exc = with_edge_context(post.exc, iface)]
        ELSE IF is_empty(post.result) THEN s1
        ELSE IF ~has_component(iface.consumer) THEN s1
        ELSE [store |-> heap_update(st1, new_delta, iface.consumer,
                           DeviationWith("guarantee_relaxation", post_result_proj)),
              count |-> s.count + 2, exc |-> NoException]

\* Body of the backward loop for one interface.
backward_step(s, iface, delta, new_delta) ==
    LET consumer_dev == read_deviation(s, delta, new_delta, iface.consumer)
        delta_a_str_proj == project(consumer_dev.assumption_strengthening, iface.variables)
        st1 == heap_update(s.store, new_delta, iface.supplier,
                           supplier_dev_update(delta_a_str_proj))
        s1 == [store |-> st1, count |-> s.count + 1, exc |-> NoException]
        pre == transformer_call(pre_transformers[iface.supplier], iface.supplier,
                                "pre", delta_a_str_proj)
        pre_result_proj == project(pre.result, components[iface.supplier].inputs)
    IN  IF s.exc # NoException THEN s
        ELSE IF is_empty(consumer_dev.assumption_strengthening) THEN s
        ELSE IF is_empty(delta_a_str_proj) THEN s
        ELSE IF iface.supplier \notin DOMAIN pre_transformers THEN s1
        ELSE IF pre.exc # NoException
             THEN [s1 EXCEPT !.exc = with_edge_context(pre.exc, iface)]
        ELSE IF is_empty(pre.result) THEN s1
        ELSE IF ~has_component(iface.supplier) THEN s1
        ELSE [store |-> heap_update(st1, new_delta, iface.supplier,
                           DeviationWith("assumption_strengthening", pre_result_proj)),
              count |-> s.count + 2, exc |-> NoException]

\* "for iface in self.network.interfaces" of the forward pass, from index i;
\* the state after interface i is computed once and handed on as a value
RECURSIVE forward_pass(_, _, _, _)
forward_pass(s, i, delta, new_delta) ==
    IF i > Len(interfaces) THEN s
    ELSE CHOOSE r \in { forward_pass(n, i + 1, delta, new_delta) :
                            n \in {forward_step(s, interfaces[i], delta, new_delta)} } :
             TRUE

\* "for iface in self.network.interfaces" of the backward pass, from index i
RECURSIVE backward_pass(_, _, _, _)
backward_pass(s, i, delta, new_delta) ==
    IF i > Len(interfaces) THEN s
    ELSE CHOOSE r \in { backward_pass(n, i + 1, delta, new_delta) :
                            n \in {backward_step(s, interfaces[i], delta, new_delta)} } :
             TRUE

\* the forward pass followed by the backward pass
apply_passes(s0, delta, new_delta) ==
    CHOOSE s2 \in { backward_pass(s1, 1, delta, new_delta) :
                        s1 \in {forward_pass(s0, 1, delta, new_delta)} } : TRUE

\* apply after "new_delta = delta.copy()": new is the copy and its heap
apply_on(new, delta) ==
    CHOOSE r \in { [store |-> s2.store, new_delta |-> new.id,
                    propagation_count |-> s2.count, exc |-> s2.exc] :
                       s2 \in {apply_passes([store |-> new.store, count |-> 0,
                                             exc |-> NoException],
                                            delta, new.id)} } : TRUE

\* EvolutionOperator.apply(delta) on heap st: the heap afterwards, the id of
\* new_delta, the propagation count and the exception raised, if any
apply(st, delta) ==
    CHOOSE r \in { apply_on(new, delta) : new \in {copy_object(st, delta)} } : TRUE

(***************************************************************************)
(* Inputs of the algebra                                                   *)
(***************************************************************************)
Rep(pattern, n) ==
    [i \in 1..(n * Len(pattern)) |-> pattern[((i - 1) % Len(pattern)) + 1]]

\* region lists handed to BehaviorSet(...): a pattern repeated n times
Patterns ==
    { <<Box1("y", 0, 20)>>,
      <<Box1("y", 0, 10)>>,
      <<Box1("x", 0, 20), Box1("y", 0, 20)>>,
      <<Box1("y", 0, 10), Box1("y", 9, 40), Box1("y", 0, 21)>>,
      <<Box2(0, 3, 0, 3)>>,
      <<Box1("y", 5, 5), Box1("x", 15, 5)>>,
      <<Box1("x", 0, 10), Box1("x", 5, 15)>> }

RepCounts == {0, 1, 5, 10, MaxRep}

RawLists == {Rep(p, n) : p \in Patterns, n \in RepCounts}

\* the behavior sets used as second operand and as deviation parts
DeltaSets ==
    { BehaviorSet(<<>>),
      BehaviorSet(<<Box1("y", 10, 20)>>),
      BehaviorSet(<<Box1("y", 20, 30)>>),
      BehaviorSet(<<Box1("x", 20, 30)>>),
      BehaviorSet(<<Box2(1, 2, 1, 2)>>) }

\* second operands of difference: a single region or several
Subtrahends ==
    DeltaSets \cup
        { BehaviorSet(<<Box1("y", 10, 20), Box2(1, 2, 1, 2), Box1("x", 5, 15)>>) }

\* further second operands of union: a set sharing a region with the first
UnionOperands == { BehaviorSet(<<Box1("x", 5, 15), Box1("x", 0, 10)>>) }

VariableSets == {{"x"}, {"y"}, {"x", "y"}}

NonEmptyParts(d) == {p \in DeviationParts : ~is_empty(d[p])}

\* deviations with at most two non-empty parts
Deviations ==
    {d \in {Deviation(a, b, c, e) : a \in DeltaSets, b \in DeltaSets,
                                    c \in DeltaSets, e \in DeltaSets} :
        Cardinality(NonEmptyParts(d)) <= 2}

\* baseline contracts over the current behavior set
Baselines(bs) ==
    { Contract(bs, bs),
      Contract(BehaviorSet(<<Box1("x", 0, 5)>>), bs),
      Contract(bs, BehaviorSet(<<>>)) }

(***************************************************************************)
(* Values of the variables a specification does not use                    *)
(***************************************************************************)
NoCall == [op |-> "none"]

AlgebraIdle == acc = BehaviorSet(<<>>) /\ nops = 0
NetworkIdle ==
    /\ components = [c \in {} |-> 0]
    /\ component_order = <<>>
    /\ interfaces = <<>>
    /\ post_transformers = [c \in {} |-> 0]
    /\ pre_transformers = [c \in {} |-> 0]
EngineIdle ==
    /\ pc = "none"
    /\ max_iterations = 0
    /\ iteration = 0
    /\ current_delta = 0
    /\ delta_history = <<>>
    /\ metrics_history = <<>>
    /\ raised = NoException
    /\ returned = 0

(***************************************************************************)
(* SpecAlgebra: calls of the behavior-set operations on acc, and of        *)
(* reconstruct_contract on a baseline built from acc                       *)
(***************************************************************************)
InitAlgebra ==
    /\ AlgebraIdle
    /\ last = NoCall
    /\ NetworkIdle
    /\ store = <<>>
    /\ EngineIdle

Construct(raw) ==
    /\ nops < MaxOps
    /\ acc' = BehaviorSet(raw)
    /\ last' = [op |-> "construct", self |-> raw, result |-> acc']
    /\ nops' = nops + 1
    /\ UNCHANGED <<netVars, store, engineVars>>

Union(other) ==
    /\ nops < MaxOps
    /\ acc' = union(acc, other)
    /\ last' = [op |-> "union", self |-> acc, other |-> other, result |-> acc']
    /\ nops' = nops + 1
    /\ UNCHANGED <<netVars, store, engineVars>>

Intersection(other) ==
    /\ nops < MaxOps
    /\ acc' = intersection(acc, other)
    /\ last' = [op |-> "intersection", self |-> acc, other |-> other, result |-> acc']
    /\ nops' = nops + 1
    /\ UNCHANGED <<netVars, store, engineVars>>

Difference(other) ==
    /\ nops < MaxOps
    /\ acc' = difference(acc, other)
    /\ last' = [op |-> "difference", self |-> acc, other |-> other, result |-> acc']
    /\ nops' = nops + 1
    /\ UNCHANGED <<netVars, store, engineVars>>

Project(vs) ==
    /\ nops < MaxOps
    /\ acc' = project(acc, vs)
    /\ last' = [op |-> "project", self |-> acc, other |-> vs, result |-> acc']
    /\ nops' = nops + 1
    /\ UNCHANGED <<netVars, store, engineVars>>

Reconstruct(baseline, deviation) ==
    /\ nops <= 1
    /\ last' = [op |-> "reconstruct", baseline |-> baseline, deviation |-> deviation,
                result |-> reconstruct_contract(baseline, deviation)]
    /\ nops' = nops + 1
    /\ UNCHANGED <<acc, netVars, store, engineVars>>

NextAlgebra ==
    \/ \E raw \in RawLists : Construct(raw)
    \/ \E other \in DeltaSets \cup UnionOperands \cup {acc} : Union(other)
    \/ \E other \in DeltaSets \cup {acc} : Intersection(other)
    \/ \E other \in Subtrahends : Difference(other)
    \/ \E vs \in VariableSets : Project(vs)
    \/ \E baseline \in Baselines(acc), deviation \in Deviations :
           Reconstruct(baseline, deviation)

SpecAlgebra == InitAlgebra /\ [][NextAlgebra]_vars

(***************************************************************************)
(* Properties of the algebra (SpecAlgebra)                                 *)
(***************************************************************************)
WithinCap(bs) == Len(bs) <= MAX_ZONOTOPES_PER_SET

\* C8: every behavior set produced by construction, union, intersection,
\* difference, projection or cache management (also inside
\* reconstruct_contract) holds at most MAX_ZONOTOPES_PER_SET regions.
C8_RegionCountWithinCap ==
    /\ WithinCap(acc)
    /\ last.op \in {"construct", "union", "intersection", "difference", "project"}
           => WithinCap(last.result)
    /\ last.op = "reconstruct"
           => WithinCap(last.result.assumptions) /\ WithinCap(last.result.guarantees)

\* a union whose concatenation exceeds the cap has been computed
C8_Witness ==
    /\ last.op = "union"
    /\ Len(last.self) + Len(last.other) > MAX_ZONOTOPES_PER_SET
    /\ Len(last.result) > 0

\* some step of difference's loop leaves more regions than the cap, so that
\* cache management merges carved pieces
RECURSIVE difference_overflows(_, _)
difference_overflows(result_regions, to_subtract) ==
    IF Len(to_subtract) = 0 THEN FALSE
    ELSE LET new_result == subtract_from_all(result_regions, Head(to_subtract))
         IN  \/ Len(new_result) > MAX_ZONOTOPES_PER_SET
             \/ difference_overflows(new_result, Tail(to_subtract))

contains_point(region, v, value) ==
    v \in DOMAIN region /\ region[v][1] <= value /\ value <= region[v][2]

C9_Example ==
    (/\ last.op = "reconstruct"
     /\ last.baseline.guarantees = <<Box1("y", 0, 20)>>
     /\ last.deviation.guarantee_relaxation = <<>>
     /\ last.deviation.guarantee_strengthening = <<Box1("y", 10, 20)>>)
        => \A i \in 1..Len(last.result.guarantees) :
               ~contains_point(last.result.guarantees[i], "y", 15)

\* C9 as stated: with dG_rel empty the reconstructed guarantee is a subset
\* of the baseline guarantee (likewise the assumption with dA_rel empty),
\* for every baseline and deviation.
C9_Original ==
    /\ (last.op = "reconstruct" /\ is_empty(last.deviation.guarantee_relaxation))
           => subset_of(last.result.guarantees, last.baseline.guarantees)
    /\ (last.op = "reconstruct" /\ is_empty(last.deviation.assumption_relaxation))
           => subset_of(last.result.assumptions, last.baseline.assumptions)
    /\ C9_Example

\* C9 (amended): strengthening only shrinks as long as no subtraction step
\* leaves more than MAX_ZONOTOPES_PER_SET regions: with dG_rel empty and no
\* such overflow, G* is a subset of G0 (likewise A* of A0 with dA_rel empty);
\* for G0 = {y in [0,20]} and dG_str = {y in [10,20]} no region of G* contains
\* y = 15.
C9_StrengtheningShrinks ==
    /\ (/\ last.op = "reconstruct"
        /\ is_empty(last.deviation.guarantee_relaxation)
        /\ ~difference_overflows(last.baseline.guarantees,
                                 last.deviation.guarantee_strengthening))
           => subset_of(last.result.guarantees, last.baseline.guarantees)
    /\ (/\ last.op = "reconstruct"
        /\ is_empty(last.deviation.assumption_relaxation)
        /\ ~difference_overflows(last.baseline.assumptions,
                                 last.deviation.assumption_strengthening))
           => subset_of(last.result.assumptions, last.baseline.assumptions)
    /\ C9_Example

\* the test's case has been reconstructed: G0 = {y in [0,20]} cut by [10,20]
C9_Witness ==
    /\ last.op = "reconstruct"
    /\ last.baseline.guarantees = <<Box1("y", 0, 20)>>
    /\ last.deviation.guarantee_relaxation = <<>>
    /\ last.deviation.guarantee_strengthening = <<Box1("y", 10, 20)>>
    /\ last.result.guarantees = <<Box1("y", 0, 10)>>

\* C10: with dG_str empty both G0 and dG_rel are subsets of G* (likewise A0
\* and dA_rel of A* with dA_str empty); with dG_rel = {y in [20,30]} the
\* reconstructed guarantee includes y in [20,30] and covers the baseline.
C10_RelaxationGrows ==
    /\ (last.op = "reconstruct" /\ is_empty(last.deviation.guarantee_strengthening))
           => /\ subset_of(last.baseline.guarantees, last.result.guarantees)
              /\ subset_of(last.deviation.guarantee_relaxation, last.result.guarantees)
    /\ (last.op = "reconstruct" /\ is_empty(last.deviation.assumption_strengthening))
           => /\ subset_of(last.baseline.assumptions, last.result.assumptions)
              /\ subset_of(last.deviation.assumption_relaxation, last.result.assumptions)

\* C11: reconstruct_contract(C0, zero deviation) returns a contract whose
\* assumptions and guarantees hold exactly the regions of C0, in the same
\* order.
C11_ZeroDeviationIdentity ==
    (last.op = "reconstruct" /\ last.deviation = EmptyDeviation)
        => /\ last.result.assumptions = last.baseline.assumptions
           /\ last.result.guarantees = last.baseline.guarantees

\* a baseline with several different regions reconstructed with the zero
\* deviation
C11_Witness ==
    /\ last.op = "reconstruct"
    /\ last.deviation = EmptyDeviation
    /\ Len(last.baseline.guarantees) >= 2
    /\ last.baseline.guarantees[1] # last.baseline.guarantees[2]
    /\ last.baseline.assumptions = <<Box1("x", 0, 5)>>
    /\ last.result = last.baseline

\* C19: BehaviorSet.union removes duplicates, so the result holds each
\* distinct region (by variable bounds) once; the union of {b1, b2} with
\* {b2, b3}, b3 having the bounds of b1, has exactly 2 regions, and S.union(S)
\* has as many regions as S.
C19_UnionRemovesDuplicates ==
    last.op = "union"
        => /\ Cardinality({last.result[k] : k \in 1..Len(last.result)})
                  = Len(last.result)
           /\ (/\ last.self = <<Box1("x", 0, 10), Box1("x", 5, 15)>>
               /\ last.other = <<Box1("x", 5, 15), Box1("x", 0, 10)>>)
                  => Len(last.result) = 2
           /\ last.self = last.other => Len(last.result) = Len(last.self)

\* the list difference hands to cache management first, <<>> if it never does
RECURSIVE difference_overflow(_, _)
difference_overflow(result_regions, to_subtract) ==
    IF Len(to_subtract) = 0 THEN <<>>
    ELSE LET new_result == subtract_from_all(result_regions, Head(to_subtract))
         IN  IF Len(new_result) > MAX_ZONOTOPES_PER_SET THEN new_result
             ELSE difference_overflow(new_result, Tail(to_subtract))

\* the region lists the last operation pushed over the cap
lists_over_cap ==
    LET made == CASE last.op = "construct" ->
                         SelectSeq(last.self, LAMBDA r : ~is_empty_region(r))
                  [] last.op = "union" /\ ~is_empty(last.self) /\ ~is_empty(last.other) ->
                         last.self \o last.other
                  [] last.op = "difference" /\ ~is_empty(last.other) ->
                         difference_overflow(last.self, last.other)
                  [] OTHER -> <<>>
    IN  IF Len(made) > MAX_ZONOTOPES_PER_SET THEN {made} ELSE {}

\* every region of regions has its bounding box inside the bounding box of a
\* region of result over the same variables
represented_in(regions, result) ==
    \A i \in 1..Len(regions) :
        \E j \in 1..Len(result) :
            /\ get_variable_set(regions[i]) = get_variable_set(result[j])
            /\ all_inside(regions[i], result[j])

\* C24: for every region list that a construction, a union or a difference
\* pushed over the cap, each region of the list is represented in what cache
\* management returns for it.
C24_CacheManagementKeepsPoints ==
    \A regions \in lists_over_cap :
        represented_in(regions, apply_cache_management(regions))

\* the variable sets of the regions of a behavior set
variable_sets(bs) == {get_variable_set(bs[i]) : i \in 1..Len(bs)}

\* every region of regions occurs, with the same bounds, in result
held_unchanged(regions, result) ==
    \A i \in 1..Len(regions) : \E j \in 1..Len(result) : result[j] = regions[i]

\* reconstruct_contract was called with a dG_str none of whose regions has the
\* variable set of a region of the baseline guarantee
NoSharedVariableSet ==
    /\ last.op = "reconstruct"
    /\ ~is_empty(last.deviation.guarantee_strengthening)
    /\ variable_sets(last.deviation.guarantee_strengthening)
           \cap variable_sets(last.baseline.guarantees) = {}

\* C26 as stated: whenever no region of dG_str shares its variable set with
\* a region of the baseline guarantee, the reconstructed guarantee holds the
\* baseline regions unchanged and is not empty.
C26_Original ==
    NoSharedVariableSet
        => /\ held_unchanged(last.baseline.guarantees, last.result.guarantees)
           /\ ~is_empty(last.result.guarantees)

\* C26: difference returns self, region by region, when no region of other
\* has the variable set of a region of self, and when it stays within the
\* cap it keeps unchanged every region of self whose variable set no region
\* of other has; so when no region of dG_str shares its variable set with a
\* region of the baseline guarantee, the baseline guarantee is not empty and
\* neither the union with dG_rel nor the difference goes over the cap, the
\* reconstructed guarantee holds the baseline regions unchanged and is not
\* empty.
C26_DifferenceKeepsIncompatible ==
    /\ (last.op = "difference"
            /\ variable_sets(last.self) \cap variable_sets(last.other) = {})
           => last.result = last.self
    /\ (last.op = "difference" /\ difference_overflow(last.self, last.other) = <<>>)
           => held_unchanged(
                  SelectSeq(last.self, LAMBDA r :
                      get_variable_set(r) \notin variable_sets(last.other)),
                  last.result)
    /\ (/\ NoSharedVariableSet
        /\ ~is_empty(last.baseline.guarantees)
        /\ Len(last.baseline.guarantees) + Len(last.deviation.guarantee_relaxation)
               <= MAX_ZONOTOPES_PER_SET
        /\ difference_overflow(union(last.baseline.guarantees,
                                     last.deviation.guarantee_relaxation),
                               last.deviation.guarantee_strengthening) = <<>>)
           => /\ held_unchanged(last.baseline.guarantees, last.result.guarantees)
              /\ ~is_empty(last.result.guarantees)

\* the shape of test_guarantee_not_empty_after_strengthening: a baseline
\* guarantee over x and y, a strengthening over y alone that overlaps it
C26_Witness ==
    /\ NoSharedVariableSet
    /\ last.baseline.guarantees = <<Box2(0, 3, 0, 3)>>
    /\ last.deviation.guarantee_strengthening = <<Box1("y", 10, 20)>>
    /\ is_empty(last.deviation.guarantee_relaxation)
    /\ last.result.guarantees = <<Box2(0, 3, 0, 3)>>

(***************************************************************************)
(* SpecSubset: subset_of called on constructed behavior sets               *)
(***************************************************************************)
\* the sets of test_behavior_set_subset, sets that cover a region only
\* jointly, sets over other variables, and the constructed lists
SubsetOperands ==
    { BehaviorSet(<<>>),
      BehaviorSet(<<Box1("x", 2, 8)>>),
      BehaviorSet(<<Box1("x", 0, 10)>>),
      BehaviorSet(<<Box1("x", 0, 6), Box1("x", 4, 10)>>),
      BehaviorSet(<<Box1("x", 0, 20), Box1("y", 0, 40)>>),
      BehaviorSet(<<Box1("y", 10, 20)>>),
      BehaviorSet(<<Box2(1, 2, 1, 2)>>),
      BehaviorSet(<<Box2(0, 5, 0, 5), Box1("x", 2, 8)>>) }
        \cup { BehaviorSet(raw) : raw \in RawLists }

InitSubset ==
    /\ acc \in SubsetOperands
    /\ nops = 0
    /\ last = NoCall
    /\ NetworkIdle
    /\ store = <<>>
    /\ EngineIdle

SubsetOf(other) ==
    /\ nops < MaxOps
    /\ last' = [op |-> "subset_of", self |-> acc, other |-> other,
                result |-> subset_of(acc, other)]
    /\ nops' = nops + 1
    /\ UNCHANGED <<acc, netVars, store, engineVars>>

NextSubset == \E other \in SubsetOperands : SubsetOf(other)

SpecSubset == InitSubset /\ [][NextSubset]_vars

(***************************************************************************)
(* Properties of subset_of (SpecSubset)                                    *)
(***************************************************************************)
\* box inclusion: the same variables and, per variable, the interval of r1
\* within the interval of r2
box_within(r1, r2) ==
    /\ DOMAIN r1 = DOMAIN r2
    /\ \A v \in DOMAIN r1 : r2[v][1] <= r1[v][1] /\ r1[v][2] <= r2[v][2]

\* C25: subset_of answers true only if every region of self lies within a
\* single region of other over the same variables; the empty set is a subset
\* of every set and a non-empty set is never a subset of the empty set;
\* every set is a subset of itself, and self within other within third gives
\* self within third.
C25_SubsetOfSound ==
    last.op = "subset_of"
        => /\ last.result
                  => \A i \in 1..Len(last.self) :
                         \E j \in 1..Len(last.other) :
                             box_within(last.self[i], last.other[j])
           /\ is_empty(last.self) => last.result
           /\ (~is_empty(last.self) /\ is_empty(last.other)) => ~last.result
           /\ subset_of(last.self, last.self)
           /\ last.result
                  => \A third \in SubsetOperands :
                         subset_of(last.other, third) => subset_of(last.self, third)

\* test_behavior_set_subset: {x in [2,8]} is a subset of {x in [0,10]}
C25_Witness ==
    /\ last.op = "subset_of"
    /\ last.self = <<Box1("x", 2, 8)>>
    /\ last.other = <<Box1("x", 0, 10)>>
    /\ last.result
    /\ ~subset_of(last.other, last.self)

(***************************************************************************)
(* SpecMap: set_deviation / update_deviation on one DeviationMap, store[1] *)
(***************************************************************************)
ComponentNames == {"A", "B"}

\* a part filled up to the cap: regions over one variable, or alternating
FilledParts ==
    { BehaviorSet(Rep(<<Box1("y", 0, 10)>>, MAX_ZONOTOPES_PER_SET)),
      BehaviorSet(Rep(<<Box1("x", 0, 20), Box1("y", 0, 20)>>, MaxRep)) }

MapDeviations ==
    { Deviation(a, BehaviorSet(<<>>), g, BehaviorSet(<<>>)) :
          a \in FilledParts \cup {BehaviorSet(<<>>), BehaviorSet(<<Box1("x", 20, 30)>>)},
          g \in {BehaviorSet(<<>>), BehaviorSet(<<Box1("y", 10, 20)>>)} }
    \cup { Deviation(BehaviorSet(<<>>), BehaviorSet(<<Box1("y", 0, 5)>>),
                     BehaviorSet(<<>>), BehaviorSet(<<Box2(1, 2, 1, 2)>>)) }

InitMap ==
    /\ AlgebraIdle
    /\ last = NoCall
    /\ NetworkIdle
    /\ store = <<EmptyMap>>
    /\ EngineIdle

SetDeviation(component, deviation) ==
    /\ nops < MaxMapOps
    /\ store' = [store EXCEPT ![1] = set_deviation(@, component, deviation)]
    /\ last' = [op |-> "set_deviation", component |-> component,
                deviation |-> deviation, before |-> store[1], after |-> store'[1]]
    /\ nops' = nops + 1
    /\ UNCHANGED <<acc, netVars, engineVars>>

UpdateDeviation(component, new_delta) ==
    /\ nops < MaxMapOps
    /\ store' = [store EXCEPT ![1] = update_deviation(@, component, new_delta)]
    /\ last' = [op |-> "update_deviation", component |-> component,
                deviation |-> new_delta, before |-> store[1], after |-> store'[1]]
    /\ nops' = nops + 1
    /\ UNCHANGED <<acc, netVars, engineVars>>

NextMap ==
    \/ \E c \in ComponentNames, d \in MapDeviations : SetDeviation(c, d)
    \/ \E c \in ComponentNames, d \in MapDeviations : UpdateDeviation(c, d)

SpecMap == InitMap /\ [][NextMap]_vars

(***************************************************************************)
(* Properties of the deviation map (SpecMap)                               *)
(***************************************************************************)
\* the union of some part concatenates more regions than the cap
update_overflows(m, component, new_delta) ==
    \E p \in DeviationParts :
        Len(get_deviation(m, component)[p]) + Len(new_delta[p])
            > MAX_ZONOTOPES_PER_SET

\* C6 as stated: the total magnitude of the map after update_deviation(c, d)
\* is at least its total magnitude before the call, for every map, c and d.
C6_Original ==
    last.op = "update_deviation"
        => map_total_magnitude(last.after) >= map_total_magnitude(last.before)

\* C6 (amended): the total magnitude after update_deviation(c, d) is at least
\* the total magnitude before the call whenever no part of c's deviation,
\* concatenated with the same part of d, exceeds MAX_ZONOTOPES_PER_SET.
C6_MagnitudeNonDecreasing ==
    (/\ last.op = "update_deviation"
     /\ ~update_overflows(last.before, last.component, last.deviation))
        => map_total_magnitude(last.after) >= map_total_magnitude(last.before)

\* an update that added regions to a component that already had a deviation
C6_Witness ==
    /\ last.op = "update_deviation"
    /\ last.component \in DOMAIN last.before
    /\ ~update_overflows(last.before, last.component, last.deviation)
    /\ total_magnitude(last.before[last.component]) > 0
    /\ map_total_magnitude(last.after) > map_total_magnitude(last.before)

\* C7: after update_deviation(c, d) both the previous deviation of c and d
\* are below the new deviation of c (Deviation.subset_of), for every
\* previous deviation and every d.
C7_MonotoneJoin ==
    last.op = "update_deviation"
        => /\ deviation_subset_of(get_deviation(last.before, last.component),
                                  get_deviation(last.after, last.component))
           /\ deviation_subset_of(last.deviation,
                                  get_deviation(last.after, last.component))

\* two maps return equal deviations from get_deviation for every component
same_lookups(m1, m2) ==
    \A c \in ComponentNames \cup DOMAIN m1 \cup DOMAIN m2 :
        deviation_eq(get_deviation(m1, c), get_deviation(m2, c))

\* the claim as stated: the map before a call and the map after it compare
\* equal whenever get_deviation returns equal deviations from both for every
\* component, an absent component reading as the empty deviation
C29_Original ==
    last.op \in {"set_deviation", "update_deviation"}
        => (same_lookups(last.before, last.after)
                => map_eq(last.before, last.after))

\* C29: deviation-map equality is structural: maps that compare equal return
\* equal deviations from get_deviation for every component; maps with the
\* same key set that return equal deviations for every component compare
\* equal; a map that gained a key, be it with an empty deviation, does not
\* compare equal to the map without that key.
C29_EqualityIsStructural ==
    last.op \in {"set_deviation", "update_deviation"}
        => /\ map_eq(last.before, last.after)
                  => same_lookups(last.before, last.after)
           /\ DOMAIN last.before = DOMAIN last.after
                  => (same_lookups(last.before, last.after)
                          => map_eq(last.before, last.after))
           /\ last.component \notin DOMAIN last.before
                  => ~map_eq(last.before, last.after)

\* a call stored under an existing key the non-empty deviation the key held:
\* the maps agree on every lookup and compare equal
C29_Witness ==
    /\ last.op = "set_deviation"
    /\ last.component \in DOMAIN last.before
    /\ total_magnitude(last.deviation) > 0
    /\ same_lookups(last.before, last.after)
    /\ map_eq(last.before, last.after)

(***************************************************************************)
(* Inputs of the network specifications                                    *)
(***************************************************************************)
NodePool ==
    { ComponentNode("A", {"x"}, {"y"},
                    Contract(BehaviorSet(<<Box1("x", 0, 5)>>),
                             BehaviorSet(<<Box1("y", 0, 10)>>))),
      ComponentNode("A", {"x", "y"}, {"y"},
                    Contract(BehaviorSet(<<Box2(0, 5, 0, 5)>>),
                             BehaviorSet(<<Box1("y", 0, 10)>>))),
      ComponentNode("B", {"y"}, {"y"},
                    Contract(BehaviorSet(<<Box1("y", 0, 10)>>),
                             BehaviorSet(<<Box1("y", 0, 10)>>))),
      ComponentNode("B", {"y"}, {"x"},
                    Contract(BehaviorSet(<<Box1("y", 0, 10)>>),
                             BehaviorSet(<<Box1("x", 0, 10)>>))) }

InterfacePool ==
    { Interface("A", "B", {"y"}),
      Interface("A", "B", {"x", "y"}),
      Interface("A", "B", {"x"}),
      Interface("B", "A", {"y"}) }

NoTransformers == [c \in {} |-> "identity"]

\* the dicts handed to EvolutionOperator(network, post_transformers, pre_transformers)
TransformerConfigs ==
    { [post |-> NoTransformers, pre |-> NoTransformers],
      [post |-> ("B" :> "identity"), pre |-> ("A" :> "identity")],
      [post |-> ("A" :> "identity") @@ ("B" :> "identity"),
       pre |-> ("A" :> "identity") @@ ("B" :> "identity")],
      [post |-> ("B" :> "fail"), pre |-> NoTransformers],
      [post |-> ("B" :> "identity"), pre |-> ("A" :> "fail")],
      [post |-> ("B" :> "empty"), pre |-> ("A" :> "empty")] }

\* deviation maps built by DeviationMap() and set_deviation
InitialMaps ==
    { EmptyMap,
      "A" :> DeviationWith("guarantee_relaxation", BehaviorSet(<<Box1("y", 10, 20)>>)),
      "A" :> DeviationWith("guarantee_relaxation", BehaviorSet(<<Box2(1, 2, 1, 2)>>)),
      "B" :> DeviationWith("assumption_strengthening", BehaviorSet(<<Box1("y", 0, 5)>>)),
      ("A" :> DeviationWith("guarantee_relaxation",
                            BehaviorSet(<<Box1("y", 10, 20), Box1("x", 20, 30)>>)))
          @@ ("B" :> Deviation(BehaviorSet(<<Box1("y", 10, 20)>>),
                               BehaviorSet(<<Box2(1, 2, 1, 2)>>),
                               BehaviorSet(<<Box1("y", 20, 30)>>),
                               BehaviorSet(<<>>))) }

(***************************************************************************)
(* Network construction, shared by SpecPhi and Spec.  The network is built *)
(* before the first deviation map exists.                                  *)
(***************************************************************************)
InitNetwork ==
    /\ AlgebraIdle
    /\ last = NoCall
    /\ components = [c \in {} |-> 0]
    /\ component_order = <<>>
    /\ interfaces = <<>>
    /\ \E cfg \in TransformerConfigs :
           /\ post_transformers = cfg.post
           /\ pre_transformers = cfg.pre
    /\ store = <<>>
    /\ EngineIdle

\* ContractNetwork.add_component: "self.components[node.name] = node"; a new
\* key goes to the end of the dict, an existing key keeps its position
add_component(node) ==
    /\ pc \in {"none", "ready"}
    /\ store = <<>>
    /\ components' = put(components, node.name, node)
    /\ component_order' = IF node.name \in DOMAIN components THEN component_order
                          ELSE Append(component_order, node.name)
    /\ last' = [op |-> "add_component", node |-> node]
    /\ raised' = NoException
    /\ UNCHANGED <<acc, nops, interfaces, post_transformers, pre_transformers,
                   store, pc, max_iterations, iteration, current_delta,
                   delta_history, metrics_history, returned>>

\* variant: the interface is appended before the endpoints are validated
add_interface_append_first(interface) ==
    /\ pc \in {"none", "ready"}
    /\ store = <<>>
    /\ interfaces' = Append(interfaces, interface)
    /\ raised' = IF ~has_component(interface.supplier) \/ ~has_component(interface.consumer)
                 THEN ValueError ELSE NoException
    /\ last' = [op |-> "add_interface", interface |-> interface,
                components |-> components, interfaces |-> interfaces]
    /\ UNCHANGED <<acc, nops, components, component_order, post_transformers,
                   pre_transformers, store, pc, max_iterations, iteration,
                   current_delta, delta_history, metrics_history, returned>>

\* ContractNetwork.add_interface; last keeps the argument and the network
\* the call found
add_interface(interface) ==
    /\ pc \in {"none", "ready"}
    /\ store = <<>>
    /\ IF ~has_component(interface.supplier) \/ ~has_component(interface.consumer)
       THEN raised' = ValueError /\ UNCHANGED interfaces
       ELSE interfaces' = Append(interfaces, interface) /\ raised' = NoException
    /\ last' = [op |-> "add_interface", interface |-> interface,
                components |-> components, interfaces |-> interfaces]
    /\ UNCHANGED <<acc, nops, components, component_order, post_transformers,
                   pre_transformers, store, pc, max_iterations, iteration,
                   current_delta, delta_history, metrics_history, returned>>

(***************************************************************************)
(* SpecPhi: direct calls of EvolutionOperator.apply on maps of the heap    *)
(***************************************************************************)
NewMap(m) ==
    /\ pc = "none"
    /\ store = <<>>
    /\ store' = <<m>>
    /\ raised' = NoException
    /\ UNCHANGED <<acc, last, nops, netVars, pc, max_iterations, iteration,
                   current_delta, delta_history, metrics_history, returned>>

\* the record of a call of apply: the input object and its deviations before
\* the call, the returned object, the count and the exception
ApplyCall(delta, r) ==
    [op |-> "apply", delta |-> delta, before |-> store[delta],
     new_delta |-> r.new_delta, propagation_count |-> r.propagation_count,
     exc |-> r.exc]

\* the heap after apply: when apply raises, new_delta is unreachable
heap_after(r) ==
    IF r.exc # NoException THEN SubSeq(r.store, 1, Len(store)) ELSE r.store

Apply(delta) ==
    /\ pc = "none"
    /\ nops < MaxApply
    /\ \E r \in {apply(store, delta)} :
           /\ store' = heap_after(r)
           /\ last' = ApplyCall(delta, r)
           /\ raised' = r.exc
    /\ nops' = nops + 1
    /\ UNCHANGED <<acc, netVars, pc, max_iterations, iteration, current_delta,
                   delta_history, metrics_history, returned>>

NextPhi ==
    \/ \E node \in NodePool : add_component(node)
    \/ \E interface \in InterfacePool :
           Len(interfaces) < MaxInterfaces /\ add_interface(interface)
    \/ \E m \in InitialMaps : NewMap(m)
    \/ \E delta \in 1..Len(store) : Apply(delta)

SpecPhi == InitNetwork /\ [][NextPhi]_vars

(***************************************************************************)
(* Properties of the evolution operator (SpecPhi)                          *)
(***************************************************************************)
\* C4: apply never mutates its input deviation map: after apply returns or
\* raises, the input object holds the same keys and per key the same four
\* region lists as before the call, and the returned map is another object.
C4_ApplyKeepsInput ==
    last.op = "apply"
        => /\ store[last.delta] = last.before
           /\ last.new_delta # last.delta

\* an application that propagated: the returned map differs from its input
C4_Witness ==
    /\ last.op = "apply"
    /\ last.exc = NoException
    /\ last.propagation_count > 0
    /\ store[last.new_delta] # store[last.delta]
    /\ store[last.delta] = last.before

\* P of an interface: the supplier's input dG_rel projected on its variables
projected_relaxation(delta_map, iface) ==
    project(get_deviation(delta_map, iface.supplier).guarantee_relaxation,
            iface.variables)

\* the non-empty P of the interfaces into component c, in interface order
relaxations_into(delta_map, c) ==
    LET into == SelectSeq(interfaces, LAMBDA iface :
                    /\ iface.consumer = c
                    /\ ~is_empty(projected_relaxation(delta_map, iface)))
    IN  [i \in 1..Len(into) |-> projected_relaxation(delta_map, into[i])]

\* post_c(P) projected onto c's outputs, for every P with a non-empty image
post_images(c, ps) ==
    IF c \notin DOMAIN post_transformers \/ ~has_component(c) THEN <<>>
    ELSE LET image(P) == transformer_call(post_transformers[c], c, "post", P).result
             nonempty == SelectSeq(ps, LAMBDA P : ~is_empty(image(P)))
         IN  [i \in 1..Len(nonempty) |->
                 project(image(nonempty[i]), components[c].outputs)]

RECURSIVE union_each(_, _)
union_each(bs, others) ==
    IF others = <<>> THEN bs
    ELSE union_each(union(bs, Head(others)), Tail(others))

TwoNodeInterfaces == <<Interface("A", "B", {"y"})>>

TargetDeviation ==
    "A" :> DeviationWith("guarantee_relaxation", BehaviorSet(<<Box1("y", 10, 20)>>))

\* C5: after one application of Phi that returns, every component that is
\* the consumer of interfaces whose supplier's input dG_rel has a non-empty
\* projection P has as dA_rel its input dA_rel unioned with each such P, and
\* as dG_rel its input dG_rel unioned with each post(P) projected onto its
\* outputs; in the two-node case A -> B on y with dG_rel(A) = {y in [10,20]}
\* and B without deviation, B's dA_rel is exactly <<{y in [10,20]}>>.
C5_ForwardPropagation ==
    (last.op = "apply" /\ last.exc = NoException)
        => /\ \A c \in {interfaces[i].consumer : i \in 1..Len(interfaces)} :
                  LET ps == relaxations_into(last.before, c)
                      input == get_deviation(last.before, c)
                      result == get_deviation(store[last.new_delta], c)
                  IN  ps # <<>>
                          => /\ result.assumption_relaxation
                                    = union_each(input.assumption_relaxation, ps)
                             /\ result.guarantee_relaxation
                                    = union_each(input.guarantee_relaxation,
                                                 post_images(c, ps))
           /\ (interfaces = TwoNodeInterfaces /\ last.before = TargetDeviation)
                  => get_deviation(store[last.new_delta], "B").assumption_relaxation
                         = <<Box1("y", 10, 20)>>

\* the two-node case with an identity post for B has been applied
C5_Witness ==
    /\ last.op = "apply"
    /\ last.exc = NoException
    /\ interfaces = TwoNodeInterfaces
    /\ last.before = TargetDeviation
    /\ "B" \in DOMAIN post_transformers
    /\ post_transformers["B"] = "identity"
    /\ store[last.new_delta]["B"].assumption_relaxation = <<Box1("y", 10, 20)>>
    /\ store[last.new_delta]["B"].guarantee_relaxation = <<Box1("y", 10, 20)>>

\* Q of an interface: the consumer's input dA_str projected on its variables
projected_strengthening(delta_map, iface) ==
    project(get_deviation(delta_map, iface.consumer).assumption_strengthening,
            iface.variables)

\* the non-empty Q of the interfaces out of component c, in interface order
strengthenings_from(delta_map, c) ==
    LET from == SelectSeq(interfaces, LAMBDA iface :
                    /\ iface.supplier = c
                    /\ ~is_empty(projected_strengthening(delta_map, iface)))
    IN  [i \in 1..Len(from) |-> projected_strengthening(delta_map, from[i])]

\* pre_c(Q) projected onto c's inputs, for every Q with a non-empty image
pre_images(c, qs) ==
    IF c \notin DOMAIN pre_transformers \/ ~has_component(c) THEN <<>>
    ELSE LET image(Q) == transformer_call(pre_transformers[c], c, "pre", Q).result
             nonempty == SelectSeq(qs, LAMBDA Q : ~is_empty(image(Q)))
         IN  [i \in 1..Len(nonempty) |->
                 project(image(nonempty[i]), components[c].inputs)]

\* the consumer's strengthening of the backward example: y in [0,5] at B
StrengthenedConsumer ==
    "B" :> DeviationWith("assumption_strengthening", BehaviorSet(<<Box1("y", 0, 5)>>))

\* C22: after one application of Phi that returns, every supplier S has as
\* dG_str its input dG_str unioned with each non-empty projection Q of the
\* input dA_str of the consumer of an interface out of S, in interface order,
\* and as dA_str its input dA_str unioned with each pre_S(Q) projected onto
\* S's inputs; a supplier all of whose interfaces have an empty Q keeps both
\* parts as they were.
C22_BackwardPropagation ==
    (last.op = "apply" /\ last.exc = NoException)
        => \A c \in {interfaces[i].supplier : i \in 1..Len(interfaces)} :
               LET qs == strengthenings_from(last.before, c)
                   input == get_deviation(last.before, c)
                   result == get_deviation(store[last.new_delta], c)
               IN  /\ result.guarantee_strengthening
                          = union_each(input.guarantee_strengthening, qs)
                   /\ result.assumption_strengthening
                          = union_each(input.assumption_strengthening,
                                       pre_images(c, qs))

\* A -> B on y with dA_str(B) = {y in [0,5]} and an identity pre for A, whose
\* inputs are x and y: A has received both parts
C22_Witness ==
    /\ last.op = "apply"
    /\ last.exc = NoException
    /\ interfaces = TwoNodeInterfaces
    /\ last.before = StrengthenedConsumer
    /\ "A" \in DOMAIN pre_transformers
    /\ pre_transformers["A"] = "identity"
    /\ store[last.new_delta]["A"].guarantee_strengthening = <<Box1("y", 0, 5)>>
    /\ store[last.new_delta]["A"].assumption_strengthening = <<Box1("y", 0, 5)>>

\* the parts of a deviation that the forward pass writes for a consumer and
\* the backward pass for a supplier
ConsumerParts == {"assumption_relaxation", "guarantee_relaxation"}

SupplierParts == {"guarantee_strengthening", "assumption_strengthening"}

consumers_of(ifaces) == {ifaces[i].consumer : i \in 1..Len(ifaces)}

suppliers_of(ifaces) == {ifaces[i].supplier : i \in 1..Len(ifaces)}

\* the parts of component c that one application may change
written_parts(c) ==
    (IF c \in consumers_of(interfaces) THEN ConsumerParts ELSE {})
        \cup (IF c \in suppliers_of(interfaces) THEN SupplierParts ELSE {})

\* C28: one application changes dA_rel and dG_rel only for consumers of some
\* interface and dG_str and dA_str only for suppliers of some interface;
\* every other part of every deviation is the same in the result as in the
\* input, and no key of the input map is missing from the result.
C28_ApplyFrame ==
    (last.op = "apply" /\ last.exc = NoException)
        => LET result == store[last.new_delta]
           IN  /\ DOMAIN last.before \subseteq DOMAIN result
               /\ \A c \in DOMAIN last.before \cup DOMAIN result :
                      \A p \in DeviationParts \ written_parts(c) :
                          get_deviation(result, c)[p]
                              = get_deviation(last.before, c)[p]

\* an application that changed a part of one component and left alone a
\* non-empty part of a consumer that the backward pass does not write and a
\* non-empty deviation of a component that is an endpoint of no interface
C28_Witness ==
    /\ last.op = "apply"
    /\ last.exc = NoException
    /\ \E c \in DOMAIN last.before :
           get_deviation(store[last.new_delta], c) # last.before[c]
    /\ \E c \in consumers_of(interfaces) \ suppliers_of(interfaces) :
           \E p \in SupplierParts : get_deviation(last.before, c)[p] # <<>>
    /\ \E c \in DOMAIN last.before :
           /\ written_parts(c) = {}
           /\ total_magnitude(last.before[c]) > 0

(***************************************************************************)
(* SpecChain: networks over A, B, C with the interfaces A -> B and B -> C  *)
(* on y; Phi is applied to the map the previous application returned, so   *)
(* store[k + 1] is the map after application k                             *)
(***************************************************************************)
ChainNodePool ==
    { ComponentNode("A", {"x"}, {"y"},
                    Contract(BehaviorSet(<<Box1("x", 0, 5)>>),
                             BehaviorSet(<<Box1("y", 0, 10)>>))),
      ComponentNode("B", {"y"}, {"y"},
                    Contract(BehaviorSet(<<Box1("y", 0, 10)>>),
                             BehaviorSet(<<Box1("y", 0, 10)>>))),
      ComponentNode("C", {"y"}, {"y"},
                    Contract(BehaviorSet(<<Box1("y", 0, 10)>>),
                             BehaviorSet(<<Box1("y", 0, 10)>>))) }

ChainInterfacePool == { Interface("A", "B", {"y"}), Interface("B", "C", {"y"}) }

ChainTransformerConfigs ==
    { [post |-> NoTransformers, pre |-> NoTransformers],
      [post |-> ("B" :> "identity") @@ ("C" :> "identity"),
       pre |-> ("A" :> "identity") @@ ("B" :> "identity")],
      [post |-> ("C" :> "identity"), pre |-> ("A" :> "identity")],
      [post |-> ("B" :> "empty") @@ ("C" :> "identity"),
       pre |-> ("A" :> "identity") @@ ("B" :> "empty")] }

\* the target of the change holds the only deviation of the initial map
ChainMaps ==
    { "A" :> DeviationWith("guarantee_relaxation", BehaviorSet(<<Box1("y", 10, 20)>>)),
      "A" :> DeviationWith("guarantee_relaxation", BehaviorSet(<<Box1("x", 20, 30)>>)),
      "A" :> DeviationWith("assumption_relaxation", BehaviorSet(<<Box1("x", 5, 8)>>)),
      "C" :> DeviationWith("assumption_strengthening", BehaviorSet(<<Box1("y", 0, 5)>>)),
      ("A" :> DeviationWith("guarantee_relaxation", BehaviorSet(<<Box1("y", 10, 20)>>)))
          @@ ("B" :> DeviationWith("assumption_strengthening",
                                   BehaviorSet(<<Box1("y", 0, 5)>>)))
          @@ ("C" :> DeviationWith("guarantee_relaxation",
                                   BehaviorSet(<<Box1("y", 20, 30)>>))) }

InitChain ==
    /\ AlgebraIdle
    /\ last = NoCall
    /\ components = [c \in {} |-> 0]
    /\ component_order = <<>>
    /\ interfaces = <<>>
    /\ \E cfg \in ChainTransformerConfigs :
           /\ post_transformers = cfg.post
           /\ pre_transformers = cfg.pre
    /\ store = <<>>
    /\ EngineIdle

\* new_delta, _ = operator.apply(current): the next application takes the map
\* the previous one returned
ApplyLatest == store # <<>> /\ Apply(Len(store))

NextChain ==
    \/ \E node \in ChainNodePool : add_component(node)
    \/ \E interface \in ChainInterfacePool :
           Len(interfaces) < MaxInterfaces /\ add_interface(interface)
    \/ \E m \in ChainMaps : NewMap(m)
    \/ ApplyLatest

SpecChain == InitChain /\ [][NextChain]_vars

(***************************************************************************)
(* Properties of successive applications (SpecChain)                       *)
(***************************************************************************)
ChainAB == Interface("A", "B", {"y"})
ChainBC == Interface("B", "C", {"y"})

\* the chain A -> B -> C, its interface list in either order
IsChain ==
    /\ DOMAIN components = {"A", "B", "C"}
    /\ interfaces \in {<<ChainAB, ChainBC>>, <<ChainBC, ChainAB>>}

\* the number of applications made on the initial map store[1]
applications == Len(store) - 1

\* the map after application k (k = 0: the initial map)
after_application(k) == store[k + 1]

\* component c has a non-empty deviation in map m
has_deviation(m, c) == NonEmptyParts(get_deviation(m, c)) # {}

\* the first application after which c has a non-empty deviation is number k
first_deviation_at(c, k) ==
    /\ applications >= k
    /\ has_deviation(after_application(k), c)
    /\ \A j \in 0..(k - 1) : ~has_deviation(after_application(j), c)

\* the initial map holds a deviation at the target only
only_at(target) ==
    /\ store # <<>>
    /\ DOMAIN store[1] = {target}
    /\ has_deviation(store[1], target)

\* what travels forward from A: a guarantee relaxation over the interface
\* variable, through a post transformer of B that returns it
ForwardCarried ==
    /\ store # <<>>
    /\ store[1] = TargetDeviation
    /\ "B" \in DOMAIN post_transformers
    /\ post_transformers["B"] = "identity"

\* what travels backward from C: an assumption strengthening over the
\* interface variable, through a pre transformer of B that returns it
BackwardCarried ==
    /\ store # <<>>
    /\ store[1] = ("C" :> DeviationWith("assumption_strengthening",
                                        BehaviorSet(<<Box1("y", 0, 5)>>)))
    /\ "B" \in DOMAIN pre_transformers
    /\ pre_transformers["B"] = "identity"

\* C21 as stated: in the chain with a deviation only at A, C (two interfaces
\* from A) has no deviation after one application and has its first
\* non-empty deviation exactly at application 2, and B exactly at 1.
C21_Original ==
    (IsChain /\ only_at("A"))
        => /\ applications >= 1 => first_deviation_at("B", 1)
           /\ applications >= 2 => first_deviation_at("C", 2)

\* C21: in the chain A -> B -> C, in either order of the interface list, one
\* application on a map with a deviation only at A leaves C without
\* deviation, and one application on a map with a deviation only at C leaves
\* A without deviation; when the deviation is carried (a relaxed guarantee
\* on y with an identity post for B, a strengthened assumption on y with an
\* identity pre for B) the component one interface away has its first
\* non-empty deviation exactly at application 1 and the one two interfaces
\* away exactly at application 2.
C21_NoPartialVisibility ==
    IsChain
        => /\ (only_at("A") /\ applications >= 1)
                  => ~has_deviation(after_application(1), "C")
           /\ (only_at("C") /\ applications >= 1)
                  => ~has_deviation(after_application(1), "A")
           /\ ForwardCarried
                  => /\ applications >= 1 => first_deviation_at("B", 1)
                     /\ applications >= 2 => first_deviation_at("C", 2)
           /\ BackwardCarried
                  => /\ applications >= 1 => first_deviation_at("B", 1)
                     /\ applications >= 2 => first_deviation_at("A", 2)

\* two applications on the chain listed supplier-first: the order in which
\* an update made for B could be read for C in the same application
C21_Witness ==
    /\ DOMAIN components = {"A", "B", "C"}
    /\ interfaces = <<ChainAB, ChainBC>>
    /\ ForwardCarried
    /\ applications = 2
    /\ ~has_deviation(after_application(1), "C")
    /\ has_deviation(after_application(2), "C")

(***************************************************************************)
(* Cycle detection: ContractNetwork.find_strongly_connected_components     *)
(* (Tarjan's algorithm over get_consumers) and find_cycles                 *)
(***************************************************************************)
\* the order of component names under Python's string comparison
SortedNames == <<"A", "B", "C">>

name_rank(n) == CHOOSE k \in 1..Len(SortedNames) : SortedNames[k] = n

\* ContractNetwork.get_consumers: one entry per interface the component supplies
get_consumers(component) ==
    LET outgoing == SelectSeq(interfaces, LAMBDA iface : iface.supplier = component)
    IN  [k \in 1..Len(outgoing) |-> outgoing[k].consumer]

\* sorted(scc) for a list of names
sorted_names(scc) ==
    SelectSeq(SortedNames, LAMBDA n : \E k \in 1..Len(scc) : scc[k] = n)

\* the state of the algorithm before the first call of strongconnect
TarjanStart ==
    [index_counter |-> 0, stack |-> <<>>,
     lowlink |-> [n \in {} |-> 0], index |-> [n \in {} |-> 0],
     on_stack |-> [n \in {} |-> FALSE], sccs |-> <<>>]

\* the first four statements of strongconnect
enter(t, node) ==
    [t EXCEPT !.index = put(@, node, t.index_counter),
              !.lowlink = put(@, node, t.index_counter),
              !.index_counter = @ + 1,
              !.stack = Append(@, node),
              !.on_stack = put(@, node, TRUE)]

\* variant: the stack is popped down to node whatever its lowlink
pop_scc_ignoring_lowlink(t, node) ==
    LET p == CHOOSE k \in 1..Len(t.stack) :
                 /\ t.stack[k] = node
                 /\ \A j \in (k + 1)..Len(t.stack) : t.stack[j] # node
        n == Len(t.stack) - p + 1
        scc == [k \in 1..n |-> t.stack[Len(t.stack) - k + 1]]
    IN  [t EXCEPT !.stack = SubSeq(@, 1, p - 1),
                  !.on_stack = [w \in DOMAIN @ |->
                                   IF \E k \in 1..n : scc[k] = w THEN FALSE ELSE @[w]],
                  !.sccs = Append(@, sorted_names(scc))]

\* "if lowlink[node] == index[node]": pop the stack down to node; scc holds
\* the popped names in pop order and is appended sorted
pop_scc(t, node) ==
    IF t.lowlink[node] # t.index[node] THEN t
    ELSE LET p == CHOOSE k \in 1..Len(t.stack) :
                      /\ t.stack[k] = node
                      /\ \A j \in (k + 1)..Len(t.stack) : t.stack[j] # node
             n == Len(t.stack) - p + 1
             scc == [k \in 1..n |-> t.stack[Len(t.stack) - k + 1]]
         IN  [t EXCEPT !.stack = SubSeq(@, 1, p - 1),
                       !.on_stack = [w \in DOMAIN @ |->
                                        IF \E k \in 1..n : scc[k] = w THEN FALSE ELSE @[w]],
                       !.sccs = Append(@, sorted_names(scc))]

RECURSIVE strongconnect(_, _), visit_consumers(_, _, _, _)

\* one round of "for consumer in self.get_consumers(node)", then the rest
visit_consumers(t, node, consumers, k) ==
    IF k > Len(consumers) THEN t
    ELSE LET consumer == consumers[k]
             visited(r) ==
                 [r EXCEPT !.lowlink[node] = Min(@, r.lowlink[consumer])]
             next == IF consumer \notin DOMAIN t.index
                     THEN CHOOSE v \in {visited(r) : r \in {strongconnect(t, consumer)}} :
                              TRUE
                     ELSE IF consumer \in DOMAIN t.on_stack /\ t.on_stack[consumer]
                          THEN [t EXCEPT !.lowlink[node] = Min(@, t.index[consumer])]
                          ELSE t
         IN  CHOOSE v \in {visit_consumers(n, node, consumers, k + 1) : n \in {next}} :
                 TRUE

\* strongconnect(node)
strongconnect(t, node) ==
    CHOOSE v \in {pop_scc(r, node) :
                     r \in {visit_consumers(enter(t, node), node,
                                            get_consumers(node), 1)}} : TRUE

\* "for component in self.components: if component not in index: ..."
RECURSIVE tarjan_loop(_, _)
tarjan_loop(t, k) ==
    IF k > Len(component_order) THEN t
    ELSE LET component == component_order[k]
             next == IF component \notin DOMAIN t.index
                     THEN strongconnect(t, component) ELSE t
         IN  CHOOSE v \in {tarjan_loop(n, k + 1) : n \in {next}} : TRUE

\* sccs.sort(key=lambda x: (-len(x), x[0])): a stable sort
scc_before(sccs, i, j) ==
    \/ Len(sccs[i]) > Len(sccs[j])
    \/ /\ Len(sccs[i]) = Len(sccs[j])
       /\ \/ name_rank(sccs[i][1]) < name_rank(sccs[j][1])
          \/ sccs[i][1] = sccs[j][1] /\ i < j

sort_sccs(sccs) ==
    LET position(i) == 1 + Cardinality({j \in 1..Len(sccs) : scc_before(sccs, j, i)})
    IN  [k \in 1..Len(sccs) |-> sccs[CHOOSE i \in 1..Len(sccs) : position(i) = k]]

\* ContractNetwork.find_strongly_connected_components
find_strongly_connected_components ==
    CHOOSE v \in {sort_sccs(t.sccs) : t \in {tarjan_loop(TarjanStart, 1)}} : TRUE

\* ContractNetwork.find_cycles
find_cycles ==
    SelectSeq(find_strongly_connected_components, LAMBDA scc : Len(scc) >= 2)

\* ContractNetwork.has_cycle
has_cycle ==
    \E k \in 1..Len(find_strongly_connected_components) :
        Len(find_strongly_connected_components[k]) >= 2

(***************************************************************************)
(* Validation: WellFormednessChecker.check and SystemLevelChecker.check.   *)
(* The contracts argument is a dict; it is the sequence of its items in    *)
(* insertion order, each item a record [name, contract].                   *)
(***************************************************************************)
ValidationResult(passed, message, details) ==
    [passed |-> passed, message |-> message, details |-> details]

\* contracts.get(name): the contract stored under name, or None
NoContract == [none |-> TRUE]

contracts_get(contracts, name) ==
    LET hits == SelectSeq(contracts, LAMBDA item : item.name = name)
    IN  IF Len(hits) = 0 THEN NoContract ELSE hits[1].contract

\* the two kinds of entries appended to violations
MissingContract(iface) ==
    [kind |-> "missing contract", supplier |-> iface.supplier,
     consumer |-> iface.consumer]

NotContained(iface) ==
    [kind |-> "assumption does not contain guarantee", supplier |-> iface.supplier,
     consumer |-> iface.consumer, variables |-> iface.variables]

\* variant: the subset test in the other direction
interface_violations_reversed(iface, contracts) ==
    LET supplier_contract == contracts_get(contracts, iface.supplier)
        consumer_contract == contracts_get(contracts, iface.consumer)
    IN  IF ~has_component(iface.supplier) \/ ~has_component(iface.consumer) THEN <<>>
        ELSE IF supplier_contract = NoContract \/ consumer_contract = NoContract
             THEN <<MissingContract(iface)>>
        ELSE IF ~subset_of(project(consumer_contract.assumptions, iface.variables),
                           project(supplier_contract.guarantees, iface.variables))
             THEN <<NotContained(iface)>>
        ELSE <<>>

\* variant: the supplier's contract is looked up under the consumer's name
interface_violations_consumer_twice(iface, contracts) ==
    LET supplier_contract == contracts_get(contracts, iface.consumer)
        consumer_contract == contracts_get(contracts, iface.consumer)
    IN  IF ~has_component(iface.supplier) \/ ~has_component(iface.consumer) THEN <<>>
        ELSE IF supplier_contract = NoContract \/ consumer_contract = NoContract
             THEN <<MissingContract(iface)>>
        ELSE IF ~subset_of(project(supplier_contract.guarantees, iface.variables),
                           project(consumer_contract.assumptions, iface.variables))
             THEN <<NotContained(iface)>>
        ELSE <<>>

\* the body of check's loop for one interface: what it appends to violations
interface_violations(iface, contracts) ==
    LET supplier_contract == contracts_get(contracts, iface.supplier)
        consumer_contract == contracts_get(contracts, iface.consumer)
    IN  IF ~has_component(iface.supplier) \/ ~has_component(iface.consumer) THEN <<>>
        ELSE IF supplier_contract = NoContract \/ consumer_contract = NoContract
             THEN <<MissingContract(iface)>>
        ELSE IF ~subset_of(project(supplier_contract.guarantees, iface.variables),
                           project(consumer_contract.assumptions, iface.variables))
             THEN <<NotContained(iface)>>
        ELSE <<>>

\* WellFormednessChecker.check
WellFormednessChecker_check(contracts) ==
    LET violations == Flatten([i \in 1..Len(interfaces) |->
                                  interface_violations(interfaces[i], contracts)])
    IN  IF Len(violations) > 0
        THEN ValidationResult(FALSE, "Network is NOT well-formed", violations)
        ELSE ValidationResult(TRUE, "Network is well-formed", <<>>)

\* Optional[BehaviorSet]: None, or a behavior set
NoBehaviorSet == [none |-> TRUE]
Some(bs) == [none |-> FALSE, value |-> bs]

\* "for comp_name, contract in contracts.items(): all_guarantees.extend(...)"
\* followed by BehaviorSet(all_guarantees)
system_guarantee_achieved(contracts) ==
    BehaviorSet(Flatten([i \in 1..Len(contracts) |-> contracts[i].contract.guarantees]))

\* the details of a failing system-level result
system_details(gap, violation) ==
    (IF ~gap.none /\ ~is_empty(gap.value)
     THEN <<[kind |-> "gap", boxes |-> Len(gap.value)]>> ELSE <<>>)
    \o (IF ~violation.none /\ ~is_empty(violation.value)
        THEN <<[kind |-> "violation", boxes |-> Len(violation.value)]>> ELSE <<>>)

\* variant: only the coverage of the required guarantee decides the result
SystemLevelChecker_check_one_sided(contracts, system_contract) ==
    LET achieved == system_guarantee_achieved(contracts)
        required_guarantee == system_contract.guarantees
        achieved_covers_required == subset_of(required_guarantee, achieved)
        no_violations == subset_of(achieved, required_guarantee)
        gap == IF ~achieved_covers_required
               THEN Some(difference(required_guarantee, achieved)) ELSE NoBehaviorSet
        violation == IF ~no_violations
                     THEN Some(difference(achieved, required_guarantee)) ELSE NoBehaviorSet
    IN  IF achieved_covers_required
        THEN [result |-> ValidationResult(TRUE, "System-level contract is SATISFIED", <<>>),
              gap |-> NoBehaviorSet, violation |-> NoBehaviorSet]
        ELSE [result |-> ValidationResult(FALSE, "System-level contract is NOT satisfied",
                                          system_details(gap, violation)),
              gap |-> gap, violation |-> violation]

\* variant: gap and violation are returned in each other's place
SystemLevelChecker_check_swapped(contracts, system_contract) ==
    LET achieved == system_guarantee_achieved(contracts)
        required_guarantee == system_contract.guarantees
        achieved_covers_required == subset_of(required_guarantee, achieved)
        no_violations == subset_of(achieved, required_guarantee)
        gap == IF ~achieved_covers_required
               THEN Some(difference(required_guarantee, achieved)) ELSE NoBehaviorSet
        violation == IF ~no_violations
                     THEN Some(difference(achieved, required_guarantee)) ELSE NoBehaviorSet
    IN  IF achieved_covers_required /\ no_violations
        THEN [result |-> ValidationResult(TRUE, "System-level contract is SATISFIED", <<>>),
              gap |-> NoBehaviorSet, violation |-> NoBehaviorSet]
        ELSE [result |-> ValidationResult(FALSE, "System-level contract is NOT satisfied",
                                          system_details(gap, violation)),
              gap |-> violation, violation |-> gap]

\* SystemLevelChecker.check: the result, the gap and the violation
SystemLevelChecker_check(contracts, system_contract) ==
    LET achieved == system_guarantee_achieved(contracts)
        required_guarantee == system_contract.guarantees
        achieved_covers_required == subset_of(required_guarantee, achieved)
        no_violations == subset_of(achieved, required_guarantee)
        gap == IF ~achieved_covers_required
               THEN Some(difference(required_guarantee, achieved)) ELSE NoBehaviorSet
        violation == IF ~no_violations
                     THEN Some(difference(achieved, required_guarantee)) ELSE NoBehaviorSet
    IN  IF achieved_covers_required /\ no_violations
        THEN [result |-> ValidationResult(TRUE, "System-level contract is SATISFIED", <<>>),
              gap |-> NoBehaviorSet, violation |-> NoBehaviorSet]
        ELSE [result |-> ValidationResult(FALSE, "System-level contract is NOT satisfied",
                                          system_details(gap, violation)),
              gap |-> gap, violation |-> violation]

(***************************************************************************)
(* SpecValidation: the network is built, then the checkers are called      *)
(***************************************************************************)
MaxChecks == 1

item(name, contract) == [name |-> name, contract |-> contract]

\* contracts of a supplier A: no assumptions, a guarantee
SupplierContracts ==
    { Contract(BehaviorSet(<<>>), g) :
          g \in { BehaviorSet(<<Box1("x", 5, 15)>>),
                  BehaviorSet(<<Box1("x", 0, 20)>>),
                  BehaviorSet(<<Box1("x", 0, 20), Box1("y", 0, 10)>>),
                  BehaviorSet(<<Box2(5, 15, 0, 10)>>),
                  BehaviorSet(<<Box1("x", 0, 10), Box1("x", 10, 20)>>),
                  BehaviorSet(<<>>) } }

\* contracts of a consumer B: an assumption and the guarantee {y in [0,10]}
ConsumerContracts ==
    { Contract(a, BehaviorSet(<<Box1("y", 0, 10)>>)) :
          a \in { BehaviorSet(<<Box1("x", 0, 20)>>),
                  BehaviorSet(<<Box1("x", 5, 15)>>),
                  BehaviorSet(<<Box1("x", 0, 10), Box1("x", 10, 20)>>),
                  BehaviorSet(<<Box1("y", 0, 10)>>),
                  BehaviorSet(<<>>) } }

\* the dicts handed to the checkers, in both insertion orders, also with
\* contracts missing
ContractDicts ==
    {<<>>}
        \cup {<<item("A", a)>> : a \in SupplierContracts}
        \cup {<<item("A", a), item("B", b)>> :
                  a \in SupplierContracts, b \in ConsumerContracts}
        \cup {<<item("B", b), item("A", a)>> :
                  a \in SupplierContracts, b \in ConsumerContracts}

\* required system-level contracts (A_S, G_S)
SystemContracts ==
    { Contract(BehaviorSet(<<>>), g) :
          g \in { BehaviorSet(<<Box1("x", 0, 20), Box1("y", 0, 10)>>),
                  BehaviorSet(<<Box1("y", 0, 10), Box1("x", 5, 15)>>),
                  BehaviorSet(<<Box1("x", 0, 30), Box1("y", 0, 10)>>),
                  BehaviorSet(<<Box1("y", 0, 10)>>),
                  BehaviorSet(<<Box1("x", 0, 20)>>),
                  BehaviorSet(<<>>) } }

InitValidation ==
    /\ AlgebraIdle
    /\ last = NoCall
    /\ NetworkIdle
    /\ store = <<>>
    /\ EngineIdle

\* checker = WellFormednessChecker(network); checker.check(contracts)
CheckWellFormedness(contracts) ==
    /\ nops < MaxChecks
    /\ last' = [op |-> "well_formedness", components |-> DOMAIN components,
                interfaces |-> interfaces, contracts |-> contracts,
                result |-> WellFormednessChecker_check(contracts)]
    /\ nops' = nops + 1
    /\ UNCHANGED <<acc, netVars, store, engineVars>>

\* checker = SystemLevelChecker(network); checker.check(contracts, system_contract)
CheckSystemLevel(contracts, system_contract) ==
    /\ nops < MaxChecks
    /\ \E r \in {SystemLevelChecker_check(contracts, system_contract)} :
           last' = [op |-> "system_level", contracts |-> contracts,
                    system_contract |-> system_contract,
                    result |-> r.result, gap |-> r.gap, violation |-> r.violation]
    /\ nops' = nops + 1
    /\ UNCHANGED <<acc, netVars, store, engineVars>>

NextValidation ==
    \/ \E node \in NodePool : add_component(node)
    \/ \E interface \in InterfacePool :
           Len(interfaces) < MaxInterfaces /\ add_interface(interface)
    \/ \E contracts \in ContractDicts : CheckWellFormedness(contracts)
    \/ \E contracts \in ContractDicts, system_contract \in SystemContracts :
           CheckSystemLevel(contracts, system_contract)

SpecValidation == InitValidation /\ [][NextValidation]_vars

(***************************************************************************)
(* Properties of the checkers (SpecValidation)                             *)
(***************************************************************************)
\* the test network: one interface A -> B on x
SingleInterfaceOnX == <<Interface("A", "B", {"x"})>>

\* the last call checked A -> B on x with supplier guarantee g and consumer
\* assumption a
checked_pair(g, a) ==
    /\ last.op = "well_formedness"
    /\ last.interfaces = SingleInterfaceOnX
    /\ contracts_get(last.contracts, "A") # NoContract
    /\ contracts_get(last.contracts, "B") # NoContract
    /\ contracts_get(last.contracts, "A").guarantees = g
    /\ contracts_get(last.contracts, "B").assumptions = a

TestContracts(g, a) ==
    <<item("A", Contract(BehaviorSet(<<>>), g)),
      item("B", Contract(a, BehaviorSet(<<Box1("y", 0, 10)>>)))>>

checked_test(g, a) ==
    /\ last.op = "well_formedness"
    /\ last.interfaces = SingleInterfaceOnX
    /\ last.contracts = TestContracts(g, a)

C14_SystemLevelPassIff ==
    last.op = "system_level"
        => LET achieved == system_guarantee_achieved(last.contracts)
               G_S == last.system_contract.guarantees
           IN  /\ last.result.passed
                     <=> (subset_of(G_S, achieved) /\ subset_of(achieved, G_S))
               /\ last.result.passed
                     => last.gap = NoBehaviorSet /\ last.violation = NoBehaviorSet

\* a passing check over two contracts with a non-empty achieved guarantee
C14_Witness ==
    /\ last.op = "system_level"
    /\ Len(last.contracts) = 2
    /\ Len(system_guarantee_achieved(last.contracts)) = 3
    /\ Len(last.system_contract.guarantees) = 2
    /\ last.result.passed
    /\ last.result.details = <<>>
    /\ last.gap = NoBehaviorSet
    /\ last.violation = NoBehaviorSet

\* C15 as stated: whenever the check fails, the gap returned is the behavior
\* set G_S \ achieved and the violation returned is the behavior set
\* achieved \ G_S, both in every failing case.
C15_Original ==
    (last.op = "system_level" /\ ~last.result.passed)
        => LET achieved == system_guarantee_achieved(last.contracts)
               G_S == last.system_contract.guarantees
           IN  /\ last.gap = Some(difference(G_S, achieved))
               /\ last.violation = Some(difference(achieved, G_S))

\* C15 (amended): whenever the check fails, the gap returned is G_S \ achieved
\* if G_S is not a subset of achieved and None otherwise, and the violation
\* returned is achieved \ G_S if achieved is not a subset of G_S and None
\* otherwise; at least one of the two is a behavior set.
C15_GapAndViolationOnFailure ==
    (last.op = "system_level" /\ ~last.result.passed)
        => LET achieved == system_guarantee_achieved(last.contracts)
               G_S == last.system_contract.guarantees
           IN  /\ last.gap = IF subset_of(G_S, achieved) THEN NoBehaviorSet
                             ELSE Some(difference(G_S, achieved))
               /\ last.violation = IF subset_of(achieved, G_S) THEN NoBehaviorSet
                                   ELSE Some(difference(achieved, G_S))
               /\ ~last.gap.none \/ ~last.violation.none

\* a failing check in which only the coverage test failed: a gap, no violation
C15_Witness ==
    /\ last.op = "system_level"
    /\ ~last.result.passed
    /\ ~last.gap.none
    /\ ~is_empty(last.gap.value)
    /\ last.violation = NoBehaviorSet
    /\ ~is_empty(system_guarantee_achieved(last.contracts))

\* a returned gap or violation that is a behavior set with a region
explains(opt) == ~opt.none /\ ~is_empty(opt.value)

\* C30: whenever SystemLevelChecker.check returns passed = false, at least
\* one of the returned gap and violation is a non-empty behavior set.
C30_FailureExplained ==
    (last.op = "system_level" /\ ~last.result.passed)
        => explains(last.gap) \/ explains(last.violation)

(***************************************************************************)
(* SpecGraph: a network of up to three components is built and queried for *)
(* its strongly connected components and cycles                            *)
(***************************************************************************)
MaxEdges == 3

GraphNames == {"A", "B", "C"}

\* the components of the cycle-detection test: one input, one output
GraphNodePool ==
    { ComponentNode(n, {"x"}, {"y"},
                    Contract(BehaviorSet(<<Box1("x", 0, 10)>>),
                             BehaviorSet(<<Box1("y", 0, 10)>>))) : n \in GraphNames }

\* interfaces between different components, and one from A to itself
GraphInterfacePool ==
    { i \in { Interface(s, c, {"y"}) : s \in GraphNames, c \in GraphNames } :
          i.supplier # i.consumer \/ i.supplier = "A" }

\* network.find_strongly_connected_components() and network.find_cycles()
FindCycles ==
    /\ nops < MaxChecks
    /\ \E sccs \in {find_strongly_connected_components} :
           last' = [op |-> "find_cycles", components |-> component_order,
                    interfaces |-> interfaces, sccs |-> sccs,
                    cycles |-> find_cycles, has_cycle |-> has_cycle]
    /\ nops' = nops + 1
    /\ UNCHANGED <<acc, netVars, store, engineVars>>

NextGraph ==
    \/ \E node \in GraphNodePool : add_component(node)
    \/ \E interface \in GraphInterfacePool :
           Len(interfaces) < MaxEdges /\ add_interface(interface)
    \/ FindCycles

SpecGraph == InitValidation /\ [][NextGraph]_vars

(***************************************************************************)
(* Properties of the network graph (SpecGraph)                             *)
(***************************************************************************)
\* the components reachable from those of S over supplier -> consumer edges
RECURSIVE reachable_from(_, _)
reachable_from(S, edges) ==
    LET next == S \cup {e[2] : e \in {d \in edges : d[1] \in S}}
    IN  IF next = S THEN S ELSE reachable_from(next, edges)

\* the maximal set of components mutually reachable with a
mutually_reachable(a, nodes, edges) ==
    {b \in nodes : b \in reachable_from({a}, edges) /\ a \in reachable_from({b}, edges)}

as_set(seq) == {seq[k] : k \in 1..Len(seq)}

edges_of(ifaces) == {<<ifaces[k].supplier, ifaces[k].consumer>> : k \in 1..Len(ifaces)}

ThreeNodeCycle ==
    <<Interface("A", "B", {"y"}), Interface("B", "C", {"y"}), Interface("C", "A", {"y"})>>

ThreeNodeChain == <<Interface("A", "B", {"y"}), Interface("B", "C", {"y"})>>

\* C16: find_strongly_connected_components returns a partition of the
\* components into the maximal sets of mutually reachable components over
\* the supplier -> consumer relation: the lists are pairwise disjoint, each
\* holds its members once, and the sets they hold are exactly the classes of
\* mutual reachability; A -> B, B -> C, C -> A yields the one SCC {A,B,C}, the
\* chain A -> B, B -> C yields only singletons, and find_cycles returns exactly
\* the SCCs of size >= 2, in the same order.
C16_SccPartition ==
    last.op = "find_cycles"
        => LET nodes == as_set(last.components)
               edges == edges_of(last.interfaces)
               sccs == last.sccs
           IN  /\ {as_set(sccs[k]) : k \in 1..Len(sccs)}
                      = {mutually_reachable(a, nodes, edges) : a \in nodes}
               /\ \A k \in 1..Len(sccs) : Cardinality(as_set(sccs[k])) = Len(sccs[k])
               /\ \A j, k \in 1..Len(sccs) :
                      j # k => as_set(sccs[j]) \cap as_set(sccs[k]) = {}
               /\ (nodes = GraphNames /\ last.interfaces = ThreeNodeCycle)
                      => sccs = << <<"A", "B", "C">> >>
               /\ (nodes = GraphNames /\ last.interfaces = ThreeNodeChain)
                      => \A k \in 1..Len(sccs) : Len(sccs[k]) = 1
               /\ last.cycles = SelectSeq(sccs, LAMBDA scc : Len(scc) >= 2)
               /\ last.has_cycle <=> (last.cycles # <<>>)

\* the three-node cycle has been queried and reported as one SCC
C16_Witness ==
    /\ last.op = "find_cycles"
    /\ as_set(last.components) = GraphNames
    /\ last.interfaces = ThreeNodeCycle
    /\ last.sccs = << <<"A", "B", "C">> >>
    /\ last.cycles = << <<"A", "B", "C">> >>

\* component a lies on a directed cycle: it is reachable from one of its
\* consumers (a itself, when an interface leads from a to a)
on_cycle(a, edges) ==
    \E e \in edges : e[1] = a /\ a \in reachable_from({e[2]}, edges)

\* C27: a component reported in an SCC of size 1 lies on no directed cycle
\* of the interface graph, and has_cycle() is true iff some component lies
\* on a directed cycle, an interface from a component to itself included.
C27_SingletonIsAcyclic ==
    last.op = "find_cycles"
        => LET nodes == as_set(last.components)
               edges == edges_of(last.interfaces)
           IN  /\ \A k \in 1..Len(last.sccs) :
                      Len(last.sccs[k]) = 1 => ~on_cycle(last.sccs[k][1], edges)
               /\ last.has_cycle <=> (\E a \in nodes : on_cycle(a, edges))

\* C17: add_interface raises the construction error iff its supplier or its
\* consumer is not a registered component, and then the component map and
\* the interface list are unchanged; otherwise the interface is appended at
\* the end of the interface list.  After any sequence of add_component and
\* add_interface calls every stored interface has both endpoints registered.
C17_AddInterfaceValidatesEndpoints ==
    /\ last.op = "add_interface"
           => LET unknown == \/ last.interface.supplier \notin DOMAIN last.components
                             \/ last.interface.consumer \notin DOMAIN last.components
              IN  /\ (raised = ValueError) <=> unknown
                  /\ components = last.components
                  /\ unknown => interfaces = last.interfaces
                  /\ ~unknown => /\ interfaces = Append(last.interfaces, last.interface)
                                 /\ raised = NoException
    /\ \A k \in 1..Len(interfaces) :
           /\ interfaces[k].supplier \in DOMAIN components
           /\ interfaces[k].consumer \in DOMAIN components

\* add_interface has raised on a network that already holds an interface
C17_Witness ==
    /\ last.op = "add_interface"
    /\ raised = ValueError
    /\ last.interface.supplier \in DOMAIN components
    /\ last.interface.consumer \notin DOMAIN components
    /\ Len(interfaces) >= 1
    /\ interfaces = last.interfaces

(***************************************************************************)
(* Spec: FixpointEngine.__init__ and FixpointEngine.run over the network.  *)
(* run is followed one loop iteration at a time.                           *)
(***************************************************************************)
\* _calculate_baseline_volumes calls assumptions.volume() for every
\* component; BehaviorSet defines total_volume_estimate but no volume, so
\* the first component visited raises AttributeError
calculate_baseline_volumes_raises == DOMAIN components # {}

\* _compute_metrics calls dev.assumption_relaxation.volume() for every
\* component of the network
compute_metrics_raises == DOMAIN components # {}

\* the IterationMetrics record _compute_metrics returns when it returns
compute_metrics(it, delta_map) ==
    [iteration |-> it,
     total_magnitude |-> map_total_magnitude(delta_map),
     per_component_magnitude |->
         [c \in DOMAIN components |-> total_magnitude(get_deviation(delta_map, c))],
     num_propagations |-> 0,
     converged |-> FALSE]

\* variant: the iteration number is not recorded on the exception
attach_iteration_number_skipped(e, it) == e

\* "if e.iteration_number is None: e.iteration_number = iteration"
attach_iteration_number(e, it) ==
    IF e.iteration_number = 0 THEN [e EXCEPT !.iteration_number = it] ELSE e

\* variant: only the latest snapshot is kept
history_append_latest_only(history, id) == <<id>>

\* "self.delta_history.append(next_delta.copy())"
history_append(history, id) == Append(history, id)

FixpointEngine_init(max_iter) ==
    /\ pc = "none"
    /\ store = <<>>
    /\ IF calculate_baseline_volumes_raises
       THEN raised' = AttributeError /\ UNCHANGED <<pc, max_iterations>>
       ELSE pc' = "ready" /\ max_iterations' = max_iter /\ raised' = NoException
    /\ UNCHANGED <<acc, last, nops, netVars, store, iteration, current_delta,
                   delta_history, metrics_history, returned>>

\* run up to the for loop: store[1] is initial_delta, current_delta its
\* copy and delta_history[0] a copy of that; range(1, 1) is empty when
\* max_iterations = 0 and run returns current_delta
RunStart(initial_delta) ==
    /\ pc = "ready"
    /\ store = <<>>
    /\ LET current == copy_object(<<initial_delta>>, 1)
           recorded == copy_object(current.store, current.id)
       IN  /\ store' = recorded.store
           /\ current_delta' = current.id
           /\ delta_history' = <<recorded.id>>
           /\ returned' = IF max_iterations = 0 THEN current.id ELSE 0
    /\ metrics_history' = <<>>
    /\ iteration' = 0
    /\ raised' = NoException
    /\ pc' = IF max_iterations = 0 THEN "done" ELSE "running"
    /\ UNCHANGED <<acc, last, nops, netVars, max_iterations>>

\* one iteration of the for loop, and the return that follows the last one
RunIteration ==
    /\ pc = "running"
    /\ iteration < max_iterations
    /\ \E r \in {apply(store, current_delta)} :
       LET it == iteration + 1
           recorded == copy_object(r.store, r.new_delta)
           metrics == [compute_metrics(it, r.store[r.new_delta])
                           EXCEPT !.num_propagations = r.propagation_count]
           equal == map_eq(r.store[r.new_delta], r.store[current_delta])
       IN  /\ iteration' = it
           /\ last' = ApplyCall(current_delta, r)
           /\ IF r.exc # NoException
              THEN /\ raised' = attach_iteration_number(r.exc, it)
                   /\ store' = heap_after(r)
                   /\ pc' = "done"
                   /\ UNCHANGED <<current_delta, delta_history, metrics_history,
                                  returned>>
              ELSE IF compute_metrics_raises
              THEN /\ raised' = AttributeError
                   /\ store' = recorded.store
                   /\ delta_history' = history_append(delta_history, recorded.id)
                   /\ pc' = "done"
                   /\ UNCHANGED <<current_delta, metrics_history, returned>>
              ELSE /\ raised' = NoException
                   /\ store' = recorded.store
                   /\ delta_history' = history_append(delta_history, recorded.id)
                   /\ metrics_history' =
                          Append(metrics_history, [metrics EXCEPT !.converged = equal])
                   /\ IF equal
                      THEN /\ pc' = "done"
                           /\ returned' = current_delta
                           /\ UNCHANGED current_delta
                      ELSE /\ current_delta' = r.new_delta
                           /\ pc' = IF it = max_iterations THEN "done" ELSE "running"
                           /\ returned' = IF it = max_iterations THEN r.new_delta ELSE 0
    /\ UNCHANGED <<acc, nops, netVars, max_iterations>>

Next ==
    \/ \E node \in NodePool : add_component(node)
    \/ \E interface \in InterfacePool :
           Len(interfaces) < MaxInterfaces /\ add_interface(interface)
    \/ \E max_iter \in 0..MaxIterations : FixpointEngine_init(max_iter)
    \/ \E initial_delta \in InitialMaps : RunStart(initial_delta)
    \/ RunIteration

Spec == InitNetwork /\ [][Next]_vars

(***************************************************************************)
(* Properties of the fixpoint engine (Spec)                                *)
(***************************************************************************)
TwoNodeNetwork ==
    /\ DOMAIN components = {"A", "B"}
    /\ components["B"].outputs = {"y"}
    /\ interfaces = TwoNodeInterfaces
    /\ "B" \in DOMAIN post_transformers
    /\ post_transformers["B"] = "identity"

\* C1: in the two-component network A -> B on y, with the initial map
\* holding only dG_rel(A) = {y in [10,20]} and an identity post for B, a run
\* that has ended has a metrics record of iteration 1 with converged = TRUE.
C1_ConvergedAtIteration1 ==
    (/\ pc = "done"
     /\ max_iterations >= 1
     /\ TwoNodeNetwork
     /\ store[1] = TargetDeviation)
        => /\ Len(metrics_history) >= 1
           /\ metrics_history[1].iteration = 1
           /\ metrics_history[1].converged

NonFailingTransformers ==
    /\ \A c \in DOMAIN post_transformers : post_transformers[c] # "fail"
    /\ \A c \in DOMAIN pre_transformers : pre_transformers[c] # "fail"

\* C2: with non-failing transformers a run that has ended has applied Phi at
\* most max_iterations times and has returned a map without an error: it
\* stopped at the first iteration whose new map equals the previous one,
\* with the flag set on that iteration's metrics, or after exactly
\* max_iterations applications, and the returned map is the one produced by
\* the last application.
C2_RunTerminates ==
    (pc = "done" /\ NonFailingTransformers)
        => /\ raised = NoException
           /\ returned # 0
           /\ iteration <= max_iterations
           /\ Len(metrics_history) = iteration
           /\ \A i \in 1..(iteration - 1) : ~metrics_history[i].converged
           /\ \/ iteration = max_iterations
              \/ metrics_history[iteration].converged
           /\ map_eq(store[returned], store[delta_history[Len(delta_history)]])

\* the iterations of the current run that ended without an exception
completed_iterations == IF raised = NoException THEN iteration ELSE iteration - 1

\* the map the i-th application of Phi returns, computed from snapshot i - 1
application_result(i) ==
    LET r == apply(store, delta_history[i])
    IN  r.store[r.new_delta]

\* what the histories hold while a run is under way or has ended
history_holds_run ==
    pc \in {"running", "done"}
        => /\ Len(delta_history) >= completed_iterations + 1
           /\ store[delta_history[1]] = store[1]
           /\ \A i \in 1..completed_iterations :
                  store[delta_history[i + 1]] = application_result(i)
           /\ Len(metrics_history) = completed_iterations
           /\ \A i \in 1..Len(metrics_history) : metrics_history[i].iteration = i
           /\ raised.type = "MILPTransformFailure"
                  => /\ Len(delta_history) = iteration
                     /\ store[delta_history[iteration]] = store[current_delta]

\* a step of the run keeps every stored snapshot and record
history_entries_kept ==
    pc \in {"running", "done"}
        => /\ Len(delta_history') >= Len(delta_history)
           /\ \A i \in 1..Len(delta_history) :
                  /\ delta_history'[i] = delta_history[i]
                  /\ store'[delta_history[i]] = store[delta_history[i]]
           /\ Len(metrics_history') >= Len(metrics_history)
           /\ \A i \in 1..Len(metrics_history) :
                  metrics_history'[i] = metrics_history[i]

ConvergenceHorizon == 32

\* Phi(m) for a map m, when apply returns
phi(m) ==
    LET r == apply(<<m>>, 1)
    IN  r.store[r.new_delta]

\* how the sequence m, Phi(m), Phi(Phi(m)), ... goes on within k applications,
\* seen being the maps before m: "converged" when two successive maps compare
\* equal as run compares them, "cycle" when Phi leads back to a map of seen
\* before that, so that the sequence repeats for ever, "open" otherwise
RECURSIVE sequence_end(_, _, _)
sequence_end(seen, m, k) ==
    IF k = 0 THEN "open"
    ELSE CHOOSE e \in { IF map_eq(n, m) THEN "converged"
                        ELSE IF n \in seen THEN "cycle"
                        ELSE sequence_end(seen \cup {m}, n, k - 1) : n \in {phi(m)} } :
             TRUE

\* C20: with non-failing transformers the sequence of maps that starts at the
\* initial map never returns to an earlier map before two successive maps
\* have compared equal, and a run whose iteration budget reaches the point
\* where they do has ended in Converged: without an error and with the flag
\* set on its last metrics record.
C20_FiniteConvergence ==
    (pc = "done" /\ NonFailingTransformers)
        => /\ sequence_end({}, store[1], ConvergenceHorizon) # "cycle"
           /\ sequence_end({}, store[1], max_iterations) = "converged"
                  => /\ raised = NoException
                     /\ Len(metrics_history) >= 1
                     /\ metrics_history[Len(metrics_history)].converged

\* C3: when apply has raised a transformer failure during run, run has ended
\* by raising that failure with the iteration number of the call (>= 1) and
\* with the component, direction and variable the transformer set; no map
\* is returned and no metrics record has converged = TRUE.
C3_TransformerFailureAbortsRun ==
    /\ (pc \in {"running", "done"} /\ last.op = "apply"
            /\ last.exc.type = "MILPTransformFailure")
           => /\ pc = "done"
              /\ raised.type = "MILPTransformFailure"
              /\ raised.iteration_number >= 1
              /\ raised.iteration_number = iteration
              /\ raised.component_name = last.exc.component_name
              /\ raised.transformer_type = last.exc.transformer_type
              /\ raised.variable_being_optimized = last.exc.variable_being_optimized
              /\ returned = 0
              /\ \A i \in 1..Len(metrics_history) : ~metrics_history[i].converged
    /\ (pc = "done" /\ raised.type = "MILPTransformFailure") => returned = 0

\* a run on A -> B whose post transformer for B failed in iteration 1
C3_Witness ==
    /\ pc = "done"
    /\ last.op = "apply"
    /\ last.exc.type = "MILPTransformFailure"
    /\ raised.type = "MILPTransformFailure"
    /\ raised.component_name = "B"
    /\ raised.transformer_type = "post"
    /\ raised.iteration_number = 1
    /\ raised.edge_context = <<"A", "B", {"y"}>>

(***************************************************************************)
(* SpecFailure: the engine over networks whose transformers raise          *)
(***************************************************************************)
FailureConfigs ==
    { [post |-> ("B" :> "fail"), pre |-> NoTransformers],
      [post |-> ("B" :> "identity"), pre |-> ("A" :> "fail")],
      [post |-> ("B" :> "fail_with_context"), pre |-> NoTransformers],
      [post |-> NoTransformers, pre |-> ("A" :> "fail_with_context")],
      [post |-> ("B" :> "fail"), pre |-> ("A" :> "fail_with_context")],
      [post |-> ("A" :> "fail_with_context") @@ ("B" :> "fail"),
       pre |-> ("B" :> "fail")] }

InitFailure ==
    /\ AlgebraIdle
    /\ last = NoCall
    /\ components = [c \in {} |-> 0]
    /\ component_order = <<>>
    /\ interfaces = <<>>
    /\ \E cfg \in FailureConfigs :
           /\ post_transformers = cfg.post
           /\ pre_transformers = cfg.pre
    /\ store = <<>>
    /\ EngineIdle

SpecFailure == InitFailure /\ [][Next]_vars

(***************************************************************************)
(* Properties of failure propagation (SpecFailure)                         *)
(***************************************************************************)
Raising == {"fail", "fail_with_context"}

\* the transformer calls one application on delta_map makes when none
\* raises, in the order of the calls: per interface of the forward loop the
\* consumer's post, then per interface of the backward loop the supplier's pre
transformer_calls(delta_map) ==
    LET forward == SelectSeq(interfaces, LAMBDA iface :
                       /\ ~is_empty(projected_relaxation(delta_map, iface))
                       /\ iface.consumer \in DOMAIN post_transformers)
        backward == SelectSeq(interfaces, LAMBDA iface :
                       /\ ~is_empty(projected_strengthening(delta_map, iface))
                       /\ iface.supplier \in DOMAIN pre_transformers)
    IN  [i \in 1..Len(forward) |->
            [iface |-> forward[i], component |-> forward[i].consumer,
             transformer_type |-> "post",
             kind |-> post_transformers[forward[i].consumer]]]
        \o [i \in 1..Len(backward) |->
            [iface |-> backward[i], component |-> backward[i].supplier,
             transformer_type |-> "pre",
             kind |-> pre_transformers[backward[i].supplier]]]

raising_calls(delta_map) ==
    SelectSeq(transformer_calls(delta_map), LAMBDA call : call.kind \in Raising)

\* the failure as the transformer of a call raised it
thrown(call) ==
    transformer_call(call.kind, call.component, call.transformer_type,
                     BehaviorSet(<<>>)).exc

\* C23: an application in which a transformer call raises ends with the
\* failure of the first such call and no other (no later interface is
\* processed, the failure is not swallowed); the failure that leaves Phi is
\* the one the transformer raised with its edge context set to the (S, C,
\* vars) of the interface being processed if it carried none and left as it
\* was otherwise; the failure that leaves run is that failure with its
\* iteration number set to the iteration of the call if it carried none and
\* left as it was otherwise; every other field is as the transformer set it.
C23_FailureContext ==
    (pc = "done" /\ last.op = "apply")
        => LET calls == raising_calls(last.before)
               call == calls[1]
               iface == call.iface
           IN  /\ (calls = <<>>) <=> (last.exc = NoException)
               /\ calls # <<>>
                      => /\ last.exc =
                                [thrown(call) EXCEPT !.edge_context =
                                    IF @ = <<>>
                                    THEN <<iface.supplier, iface.consumer, iface.variables>>
                                    ELSE @]
                         /\ raised =
                                [last.exc EXCEPT !.iteration_number =
                                    IF @ = 0 THEN iteration ELSE @]
                         /\ returned = 0

\* a run ended by a failure that came with its own context: both kept
C23_Witness ==
    /\ pc = "done"
    /\ last.op = "apply"
    /\ raised.type = "MILPTransformFailure"
    /\ raised.edge_context = PresetEdgeContext
    /\ raised.iteration_number = PresetIteration
    /\ iteration = 1
    /\ Len(interfaces) = 2

====
